---------------------------- MODULE Spec2Model ----------------------------
(***************************************************************************)
(* A state-machine model of the store application: the ProductImage        *)
(* primary flag (store/models.py), the server-generated SKU of the product *)
(* records (store/models.py) and the comparison / wishlist views           *)
(* (store/views.py).  The database tables are sets of rows; every view and *)
(* every Model.save() is one action, or, where concurrency is studied, one *)
(* action per database statement.                                          *)
(***************************************************************************)
EXTENDS Integers, Sequences, FiniteSets, TLC

VARIABLES
    productimage,   \* table store_productimage: set of rows
    nextImageId,    \* the table's auto-increment counter
    imgPc,          \* per saver: position inside ProductImage.save()
    imgInst,        \* per saver: the in-memory ProductImage being saved
    imgLast,        \* the last completed ProductImage operation (a log)
    product,        \* the product tables (store_gpu, store_cpu, ...): set of rows
    nextProductId,  \* per product table: its auto-increment counter
    skuPc,          \* per creation request: position inside the product's save()
    skuInst,        \* per creation request: the in-memory product being saved
    comparisonlist, \* table store_comparisonlist: set of rows
    comparisonitem, \* table store_comparisonitem: set of rows
    wishlistitem,   \* table store_wishlistitem: set of rows
    nextListId,     \* auto-increment counter of store_comparisonlist
    nextItemId,     \* auto-increment counter of store_comparisonitem
    nextWishId,     \* auto-increment counter of store_wishlistitem
    session,        \* per client: request.session.session_key, None without a session
    response,       \* the response of the last request
    subscriber,     \* table store_subscriber: set of rows
    nextSubscriberId, \* auto-increment counter of store_subscriber
    reply,          \* what the last subscribe_newsletter request answered
    addPc,          \* per concurrent add_to_comparison request: its position
    addReq,         \* per concurrent add_to_comparison request: its local variables
    rmPc,           \* per concurrent remove_from_comparison request: its position
    rmReq,          \* per concurrent remove_from_comparison request: its local variables
    context         \* the template context of the last rendered list view

imgVars == <<productimage, nextImageId, imgPc, imgInst, imgLast>>

catVars == <<product, nextProductId, skuPc, skuInst>>

cmpVars == <<comparisonlist, comparisonitem, wishlistitem, nextListId, nextItemId,
             nextWishId, session, response>>

subVars == <<subscriber, nextSubscriberId, reply>>

addVars == <<addPc, addReq>>

rmVars == <<rmPc, rmReq>>

viewVars == <<context>>

vars == <<productimage, nextImageId, imgPc, imgInst, imgLast,
          product, nextProductId, skuPc, skuInst,
          comparisonlist, comparisonitem, wishlistitem, nextListId, nextItemId,
          nextWishId, session, response,
          subscriber, nextSubscriberId, reply, addPc, addReq,
          rmPc, rmReq, context>>

----------------------------------------------------------------------------
(* Bounds of the model *)

MaxImages == 3      \* rows ever inserted into store_productimage
MaxObjectId == 2    \* primary keys of the products that own images
NumSavers == 2      \* requests that call ProductImage.save(), each of them once
NumCreators == 2    \* product creation requests, each of them served once
MaxLists == 2       \* rows ever inserted into store_comparisonlist
MaxItems == 2       \* rows ever inserted into store_comparisonitem
MaxWishes == 1      \* rows ever inserted into store_wishlistitem
MaxRepeatedWishes == 2 \* the same, where only add requests are run
NumRemovers == 1    \* concurrent remove_from_comparison requests, each served once
MaxSubscribers == 3 \* rows ever inserted into store_subscriber
NumAdders == 2      \* concurrent add_to_comparison requests, each served once
MaxListed == 2      \* rows of the product tables the listing views are run on

----------------------------------------------------------------------------
(* ProductImage: store/models.py, lines 33-80 *)

\* content types of the product tables that own images in the model
ImageOwnerTypes == {"GPU", "CPU"}

ObjectIds == 1..MaxObjectId

Savers == 1..NumSavers

\* an in-memory ProductImage that was never saved has no primary key
NoId == 0

\* the fields of ProductImage the save() override reads or writes
ProductImage(id, ct, oid, prim) ==
    [id |-> id, content_type |-> ct, object_id |-> oid, is_primary |-> prim]

ImageIds(db) == {r.id : r \in db}

\* the images of one product instance (same content_type and object_id)
ImagesOf(db, ct, oid) == {r \in db : r.content_type = ct /\ r.object_id = oid}

PrimaryImagesOf(db, ct, oid) == {r \in ImagesOf(db, ct, oid) : r.is_primary}

\* a mutation of DemotePrimaries: the update is skipped
DemotePrimariesSkipped(db, inst) == db

\* a mutation of DemotePrimaries: the filter forgets the object_id
DemotePrimariesAnyObject(db, inst) ==
    IF inst.is_primary
    THEN {IF r.content_type = inst.content_type /\ r.is_primary
          THEN [r EXCEPT !.is_primary = FALSE] ELSE r : r \in db}
    ELSE db

\* a mutation of DemotePrimaries: the filter forgets the content type
DemotePrimariesAnyType(db, inst) ==
    IF inst.is_primary
    THEN {IF r.object_id = inst.object_id /\ r.is_primary
          THEN [r EXCEPT !.is_primary = FALSE] ELSE r : r \in db}
    ELSE db

\* a mutation of DemotePrimaries: the filter compares object_id with the image's
\* own primary key
DemotePrimariesOwnKey(db, inst) ==
    IF inst.is_primary
    THEN {IF /\ r.content_type = inst.content_type
             /\ r.object_id = inst.id
             /\ r.is_primary
          THEN [r EXCEPT !.is_primary = FALSE]
          ELSE r : r \in db}
    ELSE db

\* save(), first statement: if self.is_primary, the filter(...).update(is_primary=False)
DemotePrimaries(db, inst) ==
    IF inst.is_primary
    THEN {IF /\ r.content_type = inst.content_type
             /\ r.object_id = inst.object_id
             /\ r.is_primary
          THEN [r EXCEPT !.is_primary = FALSE]
          ELSE r : r \in db}
    ELSE db

\* save(), second statement: super().save() writes the instance's own row,
\* an UPDATE of every field when the primary key exists, an INSERT with the
\* next auto-increment key otherwise
WriteRow(db, inst, newId) ==
    IF inst.id = NoId
    THEN db \cup {[inst EXCEPT !.id = newId]}
    ELSE {r \in db : r.id # inst.id} \cup {inst}

\* a mutation of SaveImage: the own row is written before the demoting update
SaveImageDemoteLast(db, inst, newId) == DemotePrimaries(WriteRow(db, inst, newId), inst)

\* ProductImage.save() run to completion
SaveImage(db, inst, newId) == WriteRow(DemotePrimaries(db, inst), inst, newId)

\* the log entry of a completed save: the row written, and the rows of its
\* product that were primary before the save (other than the row itself)
SaveLog(db, inst, id) ==
    [kind |-> "save", id |-> id, content_type |-> inst.content_type,
     object_id |-> inst.object_id, is_primary |-> inst.is_primary,
     others |-> {r.id : r \in {q \in PrimaryImagesOf(db, inst.content_type, inst.object_id) :
                                   q.id # id}}]

NoLog ==
    [kind |-> "none", id |-> NoId, content_type |-> "GPU", object_id |-> 1,
     is_primary |-> FALSE, others |-> {}]

ImgInit ==
    /\ productimage = {}
    /\ nextImageId = 1
    /\ imgPc = [p \in Savers |-> "idle"]
    /\ imgInst = [p \in Savers |-> ProductImage(NoId, "GPU", 1, FALSE)]
    /\ imgLast = NoLog

\* a new image is created and saved
CreateImage(ct, oid, prim) ==
    /\ nextImageId <= MaxImages
    /\ productimage' = SaveImage(productimage, ProductImage(NoId, ct, oid, prim), nextImageId)
    /\ nextImageId' = nextImageId + 1
    /\ imgLast' = SaveLog(productimage, ProductImage(NoId, ct, oid, prim), nextImageId)
    /\ UNCHANGED <<imgPc, imgInst>>
    /\ UNCHANGED <<catVars, cmpVars, subVars, addVars, rmVars, viewVars>>

\* an existing image is saved again, with the field values the caller holds
ResaveImage(id, ct, oid, prim) ==
    /\ id \in ImageIds(productimage)
    /\ productimage' = SaveImage(productimage, ProductImage(id, ct, oid, prim), nextImageId)
    /\ imgLast' = SaveLog(productimage, ProductImage(id, ct, oid, prim), id)
    /\ UNCHANGED <<nextImageId, imgPc, imgInst>>
    /\ UNCHANGED <<catVars, cmpVars, subVars, addVars, rmVars, viewVars>>

\* Model.delete() of one image
DeleteImage(id) ==
    /\ id \in ImageIds(productimage)
    /\ productimage' = {r \in productimage : r.id # id}
    /\ imgLast' = [NoLog EXCEPT !.kind = "delete", !.id = id]
    /\ UNCHANGED <<nextImageId, imgPc, imgInst>>
    /\ UNCHANGED <<catVars, cmpVars, subVars, addVars, rmVars, viewVars>>

NextImg ==
    \/ \E ct \in ImageOwnerTypes, oid \in ObjectIds, prim \in BOOLEAN :
          CreateImage(ct, oid, prim)
    \/ \E id \in 1..MaxImages, ct \in ImageOwnerTypes, oid \in ObjectIds, prim \in BOOLEAN :
          ResaveImage(id, ct, oid, prim)
    \/ \E id \in 1..MaxImages : DeleteImage(id)

\* --- two requests inside save() at once: one action per database statement

\* inserts that have run their first statement and not yet their INSERT
PendingInserts == {p \in Savers : imgPc[p] = "demoted" /\ imgInst[p].id = NoId}

\* save() up to and including the demoting UPDATE
BeginSave(p, id, ct, oid, prim) ==
    /\ imgPc[p] = "idle"
    /\ id = NoId \/ id \in ImageIds(productimage)
    /\ id = NoId => nextImageId + Cardinality(PendingInserts) <= MaxImages
    /\ productimage' = DemotePrimaries(productimage, ProductImage(id, ct, oid, prim))
    /\ imgInst' = [imgInst EXCEPT ![p] = ProductImage(id, ct, oid, prim)]
    /\ imgPc' = [imgPc EXCEPT ![p] = "demoted"]
    /\ UNCHANGED <<nextImageId, imgLast>>
    /\ UNCHANGED <<catVars, cmpVars, subVars, addVars, rmVars, viewVars>>

\* super().save(): the write of the saver's own row
FinishSave(p) ==
    /\ imgPc[p] = "demoted"
    /\ productimage' = WriteRow(productimage, imgInst[p], nextImageId)
    /\ nextImageId' = IF imgInst[p].id = NoId THEN nextImageId + 1 ELSE nextImageId
    /\ imgPc' = [imgPc EXCEPT ![p] = "done"]
    /\ imgInst' = [imgInst EXCEPT ![p].id = IF @ = NoId THEN nextImageId ELSE @]
    /\ UNCHANGED imgLast
    /\ UNCHANGED <<catVars, cmpVars, subVars, addVars, rmVars, viewVars>>

NextImgConc ==
    \/ \E p \in Savers, id \in 0..MaxImages, ct \in ImageOwnerTypes,
          oid \in ObjectIds, prim \in BOOLEAN : BeginSave(p, id, ct, oid, prim)
    \/ \E p \in Savers : FinishSave(p)

----------------------------------------------------------------------------
(* Properties of the primary flag *)

Products == ImageOwnerTypes \X ObjectIds

AtMostOnePrimary(db) ==
    \A pr \in Products : Cardinality(PrimaryImagesOf(db, pr[1], pr[2])) <= 1

\* C1: after any sequence of completed ProductImage operations (create, re-save,
\* delete), at most one image of a product instance is primary.
C1_AtMostOnePrimary == AtMostOnePrimary(productimage)

\* a save has demoted a former primary of a product that has several images
C1_Witness ==
    /\ imgLast.kind = "save" /\ imgLast.is_primary /\ imgLast.others # {}
    /\ Cardinality(ImagesOf(productimage, imgLast.content_type, imgLast.object_id)) >= 2
    /\ Cardinality(PrimaryImagesOf(productimage, imgLast.content_type, imgLast.object_id)) = 1

\* C2: when two requests save two different images of one product concurrently,
\* both with is_primary = true, the state after both have finished has at most
\* one primary image of that product.
C2_ConcurrentSavesKeepOnePrimary ==
    \A p, q \in Savers :
        (/\ imgPc[p] = "done" /\ imgPc[q] = "done"
         /\ imgInst[p].id # imgInst[q].id
         /\ imgInst[p].is_primary /\ imgInst[q].is_primary
         /\ imgInst[p].content_type = imgInst[q].content_type
         /\ imgInst[p].object_id = imgInst[q].object_id)
        => Cardinality(PrimaryImagesOf(productimage, imgInst[p].content_type,
                                       imgInst[p].object_id)) <= 1

\* C3 as stated: a product that has an image has exactly one primary image.
C3_ExactlyOnePrimary ==
    \A pr \in Products :
        ImagesOf(productimage, pr[1], pr[2]) # {}
            => Cardinality(PrimaryImagesOf(productimage, pr[1], pr[2])) = 1

\* C3 as amended: no product has more than one primary image, and the product of
\* the image saved last with is_primary = true has exactly one; a product whose
\* images were all saved with is_primary = false has none.
C3_OnePrimaryAfterPrimarySave ==
    /\ \A pr \in Products : Cardinality(PrimaryImagesOf(productimage, pr[1], pr[2])) \in {0, 1}
    /\ (imgLast.kind = "save" /\ imgLast.is_primary)
          => PrimaryImagesOf(productimage, imgLast.content_type, imgLast.object_id)
                = {ProductImage(imgLast.id, imgLast.content_type, imgLast.object_id, TRUE)}
    /\ (imgLast.kind = "save" /\ ~imgLast.is_primary)
          => imgLast.id \notin {r.id : r \in PrimaryImagesOf(productimage,
                                        imgLast.content_type, imgLast.object_id)}

\* a product has images and none is primary, after a save with is_primary = false
C3_Witness ==
    /\ imgLast.kind = "save" /\ ~imgLast.is_primary
    /\ ImagesOf(productimage, imgLast.content_type, imgLast.object_id) # {}
    /\ PrimaryImagesOf(productimage, imgLast.content_type, imgLast.object_id) = {}
    /\ nextImageId > 2

\* C4: a save of image X of product P with is_primary = true leaves X primary and
\* every other image of P that was primary before the save non-primary.
C4_PrimarySaveDemotesOthers ==
    [][(imgLast'.kind = "save" /\ imgLast'.is_primary) =>
          /\ \E x \in productimage' :
                /\ x.id = imgLast'.id /\ x.is_primary
                /\ x.content_type = imgLast'.content_type /\ x.object_id = imgLast'.object_id
          /\ \A r \in PrimaryImagesOf(productimage, imgLast'.content_type, imgLast'.object_id) :
                r.id # imgLast'.id =>
                    \E q \in productimage' : q.id = r.id /\ ~q.is_primary]_vars

\* an existing image was saved as primary while another image of its product was
C4_Witness ==
    /\ imgLast.kind = "save" /\ imgLast.is_primary /\ imgLast.others # {}
    /\ imgLast.id < nextImageId - 1
    /\ \E x \in productimage : x.id = imgLast.id /\ x.is_primary

\* C24: saving an image of product instance P with is_primary = true changes
\* the is_primary flag of no image that belongs to another product instance,
\* including an instance of a different product type that has the same
\* numeric object_id.
C24_PrimarySaveLeavesOtherProducts ==
    [][(imgLast'.kind = "save" /\ imgLast'.is_primary) =>
          \A r \in productimage :
              (/\ r.id # imgLast'.id
               /\ \/ r.content_type # imgLast'.content_type
                  \/ r.object_id # imgLast'.object_id) =>
                  \E q \in productimage' : q.id = r.id /\ q.is_primary = r.is_primary]_vars

\* an image was saved as primary while a product of the other type with the
\* same object_id keeps its primary image
C24_Witness ==
    /\ imgLast.kind = "save" /\ imgLast.is_primary
    /\ \E r \in productimage :
          /\ r.content_type # imgLast.content_type
          /\ r.object_id = imgLast.object_id
          /\ r.is_primary
          /\ r.id < imgLast.id

----------------------------------------------------------------------------
(* The product records and their SKU: store/models.py, GPU.save, CPU.save, ... *)

\* the product tables of the model
SkuTypes == {"GPU", "CPU"}

Creators == 1..NumCreators

\* values a back-office form submits for brand, model and the key specification
\* (GPU.vram, CPU.cores)
FormInputs ==
    {[brand |-> "amd", model |-> "Ryzen 5", key |-> 8],
     [brand |-> "intel", model |-> "Ryzen 7", key |-> 16]}

\* str(uuid.uuid4().int) of three version-4 UUIDs; the first two differ and
\* share their first six decimal digits
Uuid4Decimals ==
    {"227273376162750095703171279619187342102",
     "227273143167812709079442955741625896210",
     "298634197893230273375275332559008129563"}

\* Python's s[:n]
Prefix(s, n) == SubSeq(s, 1, IF Len(s) < n THEN Len(s) ELSE n)

\* the product tables whose first save is followed field by field: one with a
\* numeric key specification, one with two, one with a text
SavedTypes == {"GPU", "Tablet", "OtherAccessory"}

\* values a back-office form submits for the columns save() reads, per table
FormsOf(type) ==
    CASE type = "Tablet" ->
            {[brand |-> "Apple", model |-> "iPad", ram |-> 8, storage |-> 128],
             [brand |-> "LG", model |-> "G", ram |-> 4, storage |-> 64]}
      [] type = "OtherAccessory" ->
            {[brand |-> "Generic", model |-> "Pad X", category |-> "Cooling Pad"],
             [brand |-> "HP", model |-> "H1", category |-> "Hub"]}
      [] OTHER -> FormInputs

\* a mutation of KeySpec: a text specification is rendered in full
KeySpecInFull(inst) ==
    CASE inst.type = "Tablet" -> ToString(inst.ram) \o ToString(inst.storage)
      [] inst.type = "OtherAccessory" -> inst.category
      [] OTHER -> ToString(inst.key)

\* the key specification as the f-string renders it: {self.vram}, {self.cores},
\* {self.ram}{self.storage}, {self.category[:3]}
KeySpec(inst) ==
    CASE inst.type = "GPU" -> ToString(inst.key)
      [] inst.type = "CPU" -> ToString(inst.key)
      [] inst.type = "Mouse" -> ToString(inst.key)
      [] inst.type = "Tablet" -> ToString(inst.ram) \o ToString(inst.storage)
      [] inst.type = "OtherAccessory" -> Prefix(inst.category, 3)

\* base_number = f"{self.brand[:3]}{self.model[:3]}{self.vram}"
BaseNumber(inst) == Prefix(inst.brand, 3) \o Prefix(inst.model, 3) \o KeySpec(inst)

\* unique_id = str(uuid.uuid4().int)[:6]
UniqueId(u) == Prefix(u, 6)

\* a mutation of SkuOnSave: the SKU is formed again on every save
SkuOnSaveAlways(inst, u) == BaseNumber(inst) \o UniqueId(u)

\* the value of self.sku when save() reaches super().save()
SkuOnSave(inst, u) ==
    IF inst.sku = "" THEN BaseNumber(inst) \o UniqueId(u) ELSE inst.sku

\* a mutation of SkuTaken: the column is not declared unique
SkuTakenIgnored(db, inst) == FALSE

\* the unique constraint of the sku column of the instance's own table
SkuTaken(db, inst) ==
    \E r \in db : r.type = inst.type /\ r.sku = inst.sku /\ r.id # inst.id

NewProduct(type, f) ==
    CASE type = "Tablet" ->
            [type |-> type, id |-> NoId, brand |-> f.brand, model |-> f.model,
             ram |-> f.ram, storage |-> f.storage, sku |-> ""]
      [] type = "OtherAccessory" ->
            [type |-> type, id |-> NoId, brand |-> f.brand, model |-> f.model,
             category |-> f.category, sku |-> ""]
      [] OTHER ->
            [type |-> type, id |-> NoId, brand |-> f.brand, model |-> f.model,
             key |-> f.key, sku |-> ""]

CatInit ==
    /\ product = {}
    /\ nextProductId = [t \in SkuTypes \cup SavedTypes |-> 1]
    /\ skuPc = [p \in Creators |-> "idle"]
    /\ skuInst = [p \in Creators |-> NewProduct("GPU", CHOOSE f \in FormInputs : TRUE)]

\* save() of a new product up to super().save(): the SKU is formed in memory
BeginCreate(p, type, f, u) ==
    /\ skuPc[p] = "idle"
    /\ skuInst' = [skuInst EXCEPT ![p] =
                      [NewProduct(type, f) EXCEPT !.sku = SkuOnSave(NewProduct(type, f), u)]]
    /\ skuPc' = [skuPc EXCEPT ![p] = "generated"]
    /\ UNCHANGED <<product, nextProductId>>
    /\ UNCHANGED <<imgVars, cmpVars, subVars, addVars, rmVars, viewVars>>

\* super().save(): the INSERT, refused by the unique constraint when the SKU is
\* stored already; the IntegrityError ends the request
InsertProduct(p) ==
    /\ skuPc[p] = "generated"
    /\ IF SkuTaken(product, skuInst[p])
       THEN /\ skuPc' = [skuPc EXCEPT ![p] = "rejected"]
            /\ UNCHANGED <<product, nextProductId, skuInst>>
       ELSE /\ product' = product \cup
                  {[skuInst[p] EXCEPT !.id = nextProductId[skuInst[p].type]]}
            /\ nextProductId' = [nextProductId EXCEPT ![skuInst[p].type] = @ + 1]
            /\ skuInst' = [skuInst EXCEPT ![p].id = nextProductId[skuInst[p].type]]
            /\ skuPc' = [skuPc EXCEPT ![p] = "saved"]
    /\ UNCHANGED <<imgVars, cmpVars, subVars, addVars, rmVars, viewVars>>

\* a stored product is loaded, its form fields are replaced and it is saved
EditProduct(r, f, u) ==
    /\ r \in product
    /\ LET edited == [r EXCEPT !.brand = f.brand, !.model = f.model, !.key = f.key]
           saved == [edited EXCEPT !.sku = SkuOnSave(edited, u)]
       IN /\ ~SkuTaken(product, saved)
          /\ product' = (product \ {r}) \cup {saved}
    /\ UNCHANGED <<nextProductId, skuPc, skuInst>>
    /\ UNCHANGED <<imgVars, cmpVars, subVars, addVars, rmVars, viewVars>>

NextSku ==
    \/ \E p \in Creators, t \in SkuTypes, f \in FormInputs, u \in Uuid4Decimals :
          BeginCreate(p, t, f, u)
    \/ \E p \in Creators : InsertProduct(p)
    \/ \E r \in product, f \in FormInputs, u \in Uuid4Decimals : EditProduct(r, f, u)

\* first saves of products of the tables of SavedTypes
NextSave ==
    \/ \E p \in Creators, t \in SavedTypes, u \in Uuid4Decimals :
          \E f \in FormsOf(t) : BeginCreate(p, t, f, u)
    \/ \E p \in Creators : InsertProduct(p)

----------------------------------------------------------------------------
(* Properties of the SKU *)

\* C5: once a product record holds a non-empty SKU, every later save of it,
\* also one that changes brand, model or key specification, leaves the SKU as
\* it was.
C5_SkuImmutable ==
    [][\A r \in product : r.sku # "" =>
          \A q \in product' : (q.type = r.type /\ q.id = r.id) => q.sku = r.sku]_vars

\* a stored product whose brand and key specification were edited, so that its
\* SKU no longer starts with the base number of its current fields
C5_Witness ==
    \E r \in product :
        /\ r.sku # ""
        /\ Prefix(r.sku, 3) # Prefix(r.brand, 3)
        /\ Prefix(r.sku, Len(BaseNumber(r))) # BaseNumber(r)

\* C6: under any interleaving of creation attempts no two stored records of one
\* type share an SKU; an attempt whose SKU is stored already for its type is
\* rejected, stores nothing and is not tried again.
C6_SkuUniquePerType ==
    [][/\ \A r, q \in product' : (r.type = q.type /\ r.sku = q.sku) => r = q
       /\ \A p \in Creators :
            (skuPc[p] = "generated" /\ skuPc'[p] # "generated"
                /\ \E r \in product : r.type = skuInst[p].type /\ r.sku = skuInst[p].sku)
            => (product' = product /\ skuPc'[p] = "rejected")
       /\ \A p \in Creators :
            skuPc[p] = "rejected" => (skuPc'[p] = "rejected" /\ skuInst'[p] = skuInst[p])]_vars

\* one attempt was rejected because another stored the same SKU for the same type
C6_Witness ==
    \E p, q \in Creators :
        /\ skuPc[p] = "rejected" /\ skuPc[q] = "saved"
        /\ skuInst[p].type = skuInst[q].type /\ skuInst[p].sku = skuInst[q].sku
        /\ \E r \in product : r.id = skuInst[q].id /\ r.type = skuInst[q].type
        /\ ~\E r \in product : r.type = skuInst[p].type /\ r.id # skuInst[q].id

\* C7: an SKU identifies at most one product record across all product types.
C7_SkuUniqueAcrossTypes ==
    \A r, q \in product : r.sku = q.sku => r = q

----------------------------------------------------------------------------
(* Comparison lists and the wishlist: store/models.py, ComparisonList,          *)
(* ComparisonItem, WishlistItem; store/views.py, add_to_comparison ...          *)
(* remove_from_wishlist                                                         *)

\* Python's None: a null column, an AnonymousUser, a missing session key
None == "None"

\* the browsers that send requests: alice is logged in, the others are not
Clients == {"alice", "anon1", "anon2"}

\* request.user
UserOf(c) == IF c = "alice" THEN "alice" ELSE None

\* request.user.is_authenticated
IsAuthenticated(c) == UserOf(c) # None

\* the keys request.session.create() may draw
SessionKeys == {"k1", "k2"}

\* model_map of add_to_comparison, add_to_wishlist, quick_view, product_detail:
\* its keys in the order of the dict, and the class each key maps to
ModelKeys ==
    <<"gpu", "cpu", "ram", "motherboard", "case", "storagedevice", "psu",
      "monitor", "tablet", "laptop">>

ModelMap ==
    [gpu |-> "GPU", cpu |-> "CPU", ram |-> "RAM", motherboard |-> "Motherboard",
     case |-> "Case", storagedevice |-> "StorageDevice", psu |-> "PSU",
     monitor |-> "Monitor", tablet |-> "Tablet", laptop |-> "Laptop"]

\* the catalog the requests browse: products saved by the back office
CatalogRow(type, id, f, u) ==
    [NewProduct(type, f) EXCEPT
        !.id = id, !.sku = SkuOnSave(NewProduct(type, f), u)]

Catalog ==
    {CatalogRow("GPU", 1, [brand |-> "amd", model |-> "RX 6800", key |-> 16],
                "227273376162750095703171279619187342102"),
     CatalogRow("GPU", 2, [brand |-> "nvidia", model |-> "RTX 3080", key |-> 10],
                "298634197893230273375275332559008129563"),
     CatalogRow("CPU", 1, [brand |-> "amd", model |-> "Ryzen 5", key |-> 8],
                "227273143167812709079442955741625896210"),
     CatalogRow("Mouse", 1, [brand |-> "Logitech", model |-> "G Pro", key |-> 16000],
                "298634197893230273375275332559008129563")}

\* the product_sku values of the requests: every stored SKU and one that is not
RequestSkus == {r.sku : r \in Catalog} \cup {"nosuchsku"}

NotFound == [product |-> None, model_name |-> None, content_type |-> None]

\* "if not product": the loop set product, model_name and content_type together
Missing(found) == found.model_name = None

\* the positions of model_map whose table holds a product with the SKU
HitsOf(db, sku) ==
    {i \in 1..Len(ModelKeys) :
        \E r \in db : r.type = ModelMap[ModelKeys[i]] /\ r.sku = sku}

\* a mutation of FindProduct: model_name holds the key the loop visits last
FindProductKeyLeaked(db, sku) ==
    IF HitsOf(db, sku) = {}
    THEN NotFound
    ELSE LET i == CHOOSE j \in HitsOf(db, sku) : \A k \in HitsOf(db, sku) : j <= k
         IN [product |-> CHOOSE r \in db : r.type = ModelMap[ModelKeys[i]] /\ r.sku = sku,
             model_name |-> ModelKeys[Len(ModelKeys)],
             content_type |-> ModelMap[ModelKeys[i]]]

\* the loop over model_map: the first class that has a product with the SKU
FindProduct(db, sku) ==
    IF HitsOf(db, sku) = {}
    THEN NotFound
    ELSE LET i == CHOOSE j \in HitsOf(db, sku) : \A k \in HitsOf(db, sku) : j <= k
         IN [product |-> CHOOSE r \in db : r.type = ModelMap[ModelKeys[i]] /\ r.sku = sku,
             model_name |-> ModelKeys[i],
             content_type |-> ModelMap[ModelKeys[i]]]

\* a mutation of SessionKeyOf: no session is created
SessionKeyNotCreated(cur, fresh) == cur

\* session_key = request.session.session_key; if not session_key: create()
SessionKeyOf(cur, fresh) == IF cur = None THEN fresh ELSE cur

\* the keys create() may return: one that no session uses
FreshKeys == SessionKeys \ {session[c] : c \in Clients}

\* the rows of a table that filter(user=request.user), or
\* filter(session_key=session_key), returns
RowsOf(tbl, c, key) ==
    IF IsAuthenticated(c)
    THEN {l \in tbl : l.user = UserOf(c)}
    ELSE {l \in tbl : l.session_key = key}

\* a mutation of ItemsOf: the items of every list
ItemsOfAnyList(items, l) == items

\* comparison_list.items
ItemsOf(items, l) == {x \in items : x.comparison_list = l.id}

\* a mutation of HasProduct: the product is never found among the rows
HasProductNever(rows, found) == FALSE

\* filter(content_type=content_type, object_id=product.id).exists() over the
\* items of a list, or over the wishlist items of an identity
HasProduct(rows, found) ==
    \E x \in rows : /\ x.content_type = found.content_type
                    /\ x.object_id = found.product.id

\* a mutation of BlockingLists: no list makes add_to_comparison refuse
BlockingListsNone(lists, items, model_name) == {}

\* the lists that make add_to_comparison refuse: another type, and not empty
BlockingLists(lists, items, model_name) ==
    {l \in lists : l.product_type # model_name /\ ItemsOf(items, l) # {}}

\* the ownership test of remove_from_comparison, clear_comparison and
\* remove_from_wishlist: row is the list, or the wishlist item
Permitted(c, row) ==
    IF IsAuthenticated(c)
    THEN ~(row.user # UserOf(c))
    ELSE ~(row.session_key # session[c])

\* what a view returns: the redirect (or error status) and the flash message
Response(status, notice) == [status |-> status, notice |-> notice]

CmpInit ==
    /\ comparisonlist = {}
    /\ comparisonitem = {}
    /\ wishlistitem = {}
    /\ nextListId = 1
    /\ nextItemId = 1
    /\ nextWishId = 1
    /\ session = [c \in Clients |-> None]
    /\ response = Response(None, None)

cmpTables == <<comparisonlist, comparisonitem, wishlistitem, nextListId, nextItemId, nextWishId>>

\* add_to_comparison(request, product_sku)
AddToComparison(c, sku) ==
    LET found == FindProduct(product, sku) IN
    /\ IF Missing(found)
       THEN /\ response' = Response("redirect:home", "not_found")
            /\ UNCHANGED <<cmpTables, session>>
       ELSE \E fresh \in (IF ~IsAuthenticated(c) /\ session[c] = None
                          THEN FreshKeys ELSE {None}) :
            LET key == IF IsAuthenticated(c) THEN None ELSE SessionKeyOf(session[c], fresh)
                mine == RowsOf(comparisonlist, c, key)
                matches == {l \in mine : l.product_type = found.model_name}
                created == [id |-> nextListId, user |-> UserOf(c), session_key |-> key,
                            product_type |-> found.model_name]
                list == IF matches = {} THEN created ELSE CHOOSE l \in matches : TRUE
                item == [id |-> nextItemId, comparison_list |-> list.id,
                         content_type |-> found.content_type,
                         object_id |-> found.product.id]
            IN /\ session' = IF IsAuthenticated(c) THEN session
                             ELSE [session EXCEPT ![c] = key]
               /\ IF BlockingLists(mine, comparisonitem, found.model_name) # {}
                  THEN /\ response' = Response("redirect:comparison_view", "other_type")
                       /\ UNCHANGED cmpTables
                  ELSE IF Cardinality(matches) > 1
                  THEN \* get_or_create raises MultipleObjectsReturned
                       /\ response' = Response("500", None)
                       /\ UNCHANGED cmpTables
                  ELSE /\ matches = {} => nextListId <= MaxLists
                       /\ comparisonlist' = comparisonlist \cup {list}
                       /\ nextListId' = IF matches = {} THEN nextListId + 1 ELSE nextListId
                       /\ IF HasProduct(ItemsOf(comparisonitem, list), found)
                          THEN /\ response' = Response("redirect:comparison_view", "already")
                               /\ UNCHANGED <<comparisonitem, nextItemId>>
                          ELSE /\ nextItemId <= MaxItems
                               /\ comparisonitem' = comparisonitem \cup {item}
                               /\ nextItemId' = nextItemId + 1
                               /\ response' = Response("redirect:comparison_view", "added")
                       /\ UNCHANGED <<wishlistitem, nextWishId>>
    /\ UNCHANGED <<imgVars, catVars, subVars, addVars, rmVars, viewVars>>

\* a mutation of EmptiedLists: the emptied list is kept
EmptiedListsNone(items, list) == {}

\* "if comparison_list.items.count() == 0: comparison_list.delete()": the rows
\* that the statement deletes, given the items left after item.delete()
EmptiedLists(items, list) == IF ItemsOf(items, list) = {} THEN {list} ELSE {}

\* remove_from_comparison(request, item_id)
RemoveFromComparison(c, item_id) ==
    /\ IF ~\E x \in comparisonitem : x.id = item_id
       THEN \* get_object_or_404
            /\ response' = Response("404", None)
            /\ UNCHANGED cmpTables
       ELSE LET item == CHOOSE x \in comparisonitem : x.id = item_id
                list == CHOOSE l \in comparisonlist : l.id = item.comparison_list
            IN IF ~Permitted(c, list)
               THEN /\ response' = Response("redirect:comparison_view", "permission")
                    /\ UNCHANGED cmpTables
               ELSE /\ comparisonitem' = comparisonitem \ {item}
                    /\ comparisonlist' =
                           comparisonlist \ EmptiedLists(comparisonitem \ {item}, list)
                    /\ response' =
                           IF EmptiedLists(comparisonitem \ {item}, list) # {}
                           THEN Response("redirect:comparison_view", "removed_list_deleted")
                           ELSE Response("redirect:comparison_view", "removed")
                    /\ UNCHANGED <<wishlistitem, nextListId, nextItemId, nextWishId>>
    /\ UNCHANGED <<session, imgVars, catVars, subVars, addVars, rmVars, viewVars>>

\* a mutation of ClearComparison: the items are deleted and the list is kept
ClearComparisonKeepList(c, comparison_id) ==
    /\ IF ~\E l \in comparisonlist : l.id = comparison_id
       THEN /\ response' = Response("404", None)
            /\ UNCHANGED cmpTables
       ELSE LET list == CHOOSE l \in comparisonlist : l.id = comparison_id
            IN IF ~Permitted(c, list)
               THEN /\ response' = Response("redirect:comparison_view", "permission")
                    /\ UNCHANGED cmpTables
               ELSE /\ comparisonitem' = comparisonitem \ ItemsOf(comparisonitem, list)
                    /\ response' = Response("redirect:comparison_view", "cleared")
                    /\ UNCHANGED <<comparisonlist, wishlistitem, nextListId,
                                   nextItemId, nextWishId>>
    /\ UNCHANGED <<session, imgVars, catVars, subVars, addVars, rmVars, viewVars>>

\* clear_comparison(request, comparison_id)
ClearComparison(c, comparison_id) ==
    /\ IF ~\E l \in comparisonlist : l.id = comparison_id
       THEN /\ response' = Response("404", None)
            /\ UNCHANGED cmpTables
       ELSE LET list == CHOOSE l \in comparisonlist : l.id = comparison_id
            IN IF ~Permitted(c, list)
               THEN /\ response' = Response("redirect:comparison_view", "permission")
                    /\ UNCHANGED cmpTables
               ELSE /\ comparisonitem' = comparisonitem \ ItemsOf(comparisonitem, list)
                    /\ comparisonlist' = comparisonlist \ {list}
                    /\ response' = Response("redirect:comparison_view", "cleared")
                    /\ UNCHANGED <<wishlistitem, nextListId, nextItemId, nextWishId>>
    /\ UNCHANGED <<session, imgVars, catVars, subVars, addVars, rmVars, viewVars>>

\* a mutation of AddToWishlist: the session is created before the lookup
AddToWishlistSessionFirst(c, sku) ==
    /\ \E fresh \in (IF ~IsAuthenticated(c) /\ session[c] = None
                     THEN FreshKeys ELSE {None}) :
            LET found == FindProduct(product, sku)
                key == IF IsAuthenticated(c) THEN None ELSE SessionKeyOf(session[c], fresh)
                mine == RowsOf(wishlistitem, c, key)
            IN /\ session' = IF IsAuthenticated(c) THEN session
                             ELSE [session EXCEPT ![c] = key]
               /\ IF Missing(found)
                  THEN /\ response' = Response("redirect:home", "not_found")
                       /\ UNCHANGED cmpTables
                  ELSE IF \E w \in mine : /\ w.content_type = found.content_type
                                          /\ w.object_id = found.product.id
                  THEN /\ response' = Response("redirect:wishlist_view", "already")
                       /\ UNCHANGED cmpTables
                  ELSE /\ nextWishId <= MaxWishes
                       /\ wishlistitem' =
                              wishlistitem \cup
                                  {[id |-> nextWishId, user |-> UserOf(c),
                                    session_key |-> key,
                                    content_type |-> found.content_type,
                                    object_id |-> found.product.id]}
                       /\ nextWishId' = nextWishId + 1
                       /\ response' = Response("redirect:wishlist_view", "added")
                       /\ UNCHANGED <<comparisonlist, comparisonitem, nextListId, nextItemId>>
    /\ UNCHANGED <<imgVars, catVars, subVars, addVars, rmVars, viewVars>>

\* add_to_wishlist(request, product_sku), with at most max rows ever inserted
AddToWishlistWithin(c, sku, max) ==
    LET found == FindProduct(product, sku) IN
    /\ IF Missing(found)
       THEN /\ response' = Response("redirect:home", "not_found")
            /\ UNCHANGED <<cmpTables, session>>
       ELSE \E fresh \in (IF ~IsAuthenticated(c) /\ session[c] = None
                          THEN FreshKeys ELSE {None}) :
            LET key == IF IsAuthenticated(c) THEN None ELSE SessionKeyOf(session[c], fresh)
                mine == RowsOf(wishlistitem, c, key)
                item == [id |-> nextWishId, user |-> UserOf(c), session_key |-> key,
                         content_type |-> found.content_type,
                         object_id |-> found.product.id]
            IN /\ session' = IF IsAuthenticated(c) THEN session
                             ELSE [session EXCEPT ![c] = key]
               /\ IF HasProduct(mine, found)
                  THEN /\ response' = Response("redirect:wishlist_view", "already")
                       /\ UNCHANGED cmpTables
                  ELSE /\ nextWishId <= max
                       /\ wishlistitem' = wishlistitem \cup {item}
                       /\ nextWishId' = nextWishId + 1
                       /\ response' = Response("redirect:wishlist_view", "added")
                       /\ UNCHANGED <<comparisonlist, comparisonitem, nextListId, nextItemId>>
    /\ UNCHANGED <<imgVars, catVars, subVars, addVars, rmVars, viewVars>>

\* add_to_wishlist(request, product_sku)
AddToWishlist(c, sku) == AddToWishlistWithin(c, sku, MaxWishes)

\* remove_from_wishlist(request, item_id)
RemoveFromWishlist(c, item_id) ==
    /\ IF ~\E w \in wishlistitem : w.id = item_id
       THEN /\ response' = Response("404", None)
            /\ UNCHANGED cmpTables
       ELSE LET item == CHOOSE w \in wishlistitem : w.id = item_id
            IN IF ~Permitted(c, item)
               THEN /\ response' = Response("redirect:wishlist_view", "permission")
                    /\ UNCHANGED cmpTables
               ELSE /\ wishlistitem' = wishlistitem \ {item}
                    /\ response' = Response("redirect:wishlist_view", "removed")
                    /\ UNCHANGED <<comparisonlist, comparisonitem, nextListId,
                                   nextItemId, nextWishId>>
    /\ UNCHANGED <<session, imgVars, catVars, subVars, addVars, rmVars, viewVars>>

\* product_detail(request, product_sku)
ProductDetail(c, sku) ==
    /\ response' = IF Missing(FindProduct(product, sku))
                   THEN Response("redirect:home", "not_found")
                   ELSE Response("200", None)
    /\ UNCHANGED <<cmpTables, session, imgVars, catVars, subVars, addVars, rmVars, viewVars>>

\* a mutation of QuickView: an unknown SKU is answered like in product_detail
QuickViewRedirects(c, sku) ==
    /\ response' = IF Missing(FindProduct(product, sku))
                   THEN Response("redirect:home", "not_found")
                   ELSE Response("200", None)
    /\ UNCHANGED <<cmpTables, session, imgVars, catVars, subVars, addVars, rmVars, viewVars>>

\* quick_view(request, product_sku): JsonResponse({'error': ...}, status=404)
\* carries no flash message
QuickView(c, sku) ==
    /\ response' = IF Missing(FindProduct(product, sku))
                   THEN Response("404", None)
                   ELSE Response("200", None)
    /\ UNCHANGED <<cmpTables, session, imgVars, catVars, subVars, addVars, rmVars, viewVars>>

\* the comparison requests
NextCmp ==
    \/ \E c \in Clients, sku \in RequestSkus : AddToComparison(c, sku)
    \/ \E c \in Clients, id \in 1..MaxItems : RemoveFromComparison(c, id)
    \/ \E c \in Clients, id \in 1..MaxLists : ClearComparison(c, id)

\* the comparison and the wishlist requests
NextStore ==
    \/ \E c \in Clients, sku \in RequestSkus : AddToComparison(c, sku)
    \/ \E c \in Clients, id \in 1..MaxItems : RemoveFromComparison(c, id)
    \/ \E c \in Clients, id \in 1..MaxLists : ClearComparison(c, id)
    \/ \E c \in Clients, sku \in RequestSkus : AddToWishlist(c, sku)
    \/ \E c \in Clients, id \in 1..MaxWishes : RemoveFromWishlist(c, id)

\* the visitors of the smaller specifications: a logged-in user and an
\* anonymous one
ViewClients == {"alice", "anon1"}

\* the add requests alone
NextAdd ==
    \/ \E c \in ViewClients, sku \in RequestSkus : AddToComparison(c, sku)
    \/ \E c \in ViewClients, sku \in RequestSkus :
          AddToWishlistWithin(c, sku, MaxRepeatedWishes)

\* every view that looks a record up by an identifier of the request
NextViews ==
    \/ \E c \in ViewClients, sku \in RequestSkus : AddToComparison(c, sku)
    \/ \E c \in ViewClients, id \in 1..MaxItems : RemoveFromComparison(c, id)
    \/ \E c \in ViewClients, id \in 1..MaxLists : ClearComparison(c, id)
    \/ \E c \in ViewClients, sku \in RequestSkus : AddToWishlist(c, sku)
    \/ \E c \in ViewClients, id \in 1..MaxWishes : RemoveFromWishlist(c, id)
    \/ \E c \in ViewClients, sku \in RequestSkus : ProductDetail(c, sku)
    \/ \E c \in ViewClients, sku \in RequestSkus : QuickView(c, sku)

----------------------------------------------------------------------------
(* add_to_comparison of concurrent requests: store/views.py 165-256 *)

\* the concurrent requests
Adders == 1..NumAdders

\* the visitors that send them: logged-in users (the branch of line 203)
AdderClients == {c \in Clients : IsAuthenticated(c)}

\* the local variables of a request that has not started
NoRequest ==
    [c |-> None, model_name |-> None, content_type |-> None, object_id |-> NoId,
     lists |-> {}, list_id |-> NoId, item_id |-> NoId,
     response |-> Response(None, None)]

AddInit ==
    /\ addPc = [p \in Adders |-> "idle"]
    /\ addReq = [p \in Adders |-> NoRequest]

\* the request ends with the response
Respond(p, status, notice) ==
    /\ addPc' = [addPc EXCEPT ![p] = "done"]
    /\ addReq' = [addReq EXCEPT ![p].response = Response(status, notice)]

\* lines 181-204: the lookup of the product; comparison_lists is a lazy query
BeginAdd(p, c, sku) ==
    LET found == FindProduct(product, sku) IN
    /\ addPc[p] = "idle"
    /\ IF Missing(found)
       THEN /\ addPc' = [addPc EXCEPT ![p] = "done"]
            /\ addReq' = [addReq EXCEPT ![p].c = c,
                                        ![p].response = Response("redirect:home", "not_found")]
       ELSE /\ addPc' = [addPc EXCEPT ![p] = "read"]
            /\ addReq' = [addReq EXCEPT ![p].c = c,
                                        ![p].model_name = found.model_name,
                                        ![p].content_type = found.content_type,
                                        ![p].object_id = found.product.id]
    /\ UNCHANGED <<imgVars, catVars, cmpVars, subVars, rmVars, viewVars>>

\* line 213, "for existing_list in comparison_lists": the query is run
ReadLists(p) ==
    /\ addPc[p] = "read"
    /\ addPc' = [addPc EXCEPT ![p] = "check"]
    /\ addReq' = [addReq EXCEPT ![p].lists = RowsOf(comparisonlist, addReq[p].c, None)]
    /\ UNCHANGED <<imgVars, catVars, cmpVars, subVars, rmVars, viewVars>>

\* lines 213-225: existing_list.items.exists() for the lists of another type
CheckOtherType(p) ==
    /\ addPc[p] = "check"
    /\ IF BlockingLists(addReq[p].lists, comparisonitem, addReq[p].model_name) # {}
       THEN Respond(p, "redirect:comparison_view", "other_type")
       ELSE /\ addPc' = [addPc EXCEPT ![p] = "get"]
            /\ addReq' = addReq
    /\ UNCHANGED <<imgVars, catVars, cmpVars, subVars, rmVars, viewVars>>

\* lines 228-237, get_or_create: the get()
GetList(p) ==
    LET matches == {l \in RowsOf(comparisonlist, addReq[p].c, None) :
                        l.product_type = addReq[p].model_name} IN
    /\ addPc[p] = "get"
    /\ IF Cardinality(matches) > 1
       THEN \* MultipleObjectsReturned
            Respond(p, "500", None)
       ELSE IF matches = {}
       THEN /\ addPc' = [addPc EXCEPT ![p] = "create_list"]
            /\ addReq' = addReq
       ELSE /\ addPc' = [addPc EXCEPT ![p] = "exists"]
            /\ addReq' = [addReq EXCEPT ![p].list_id = (CHOOSE l \in matches : TRUE).id]
    /\ UNCHANGED <<imgVars, catVars, cmpVars, subVars, rmVars, viewVars>>

\* lines 228-237, get_or_create: the create() after get() found no list
CreateList(p) ==
    /\ addPc[p] = "create_list"
    /\ nextListId <= MaxLists
    /\ comparisonlist' =
           comparisonlist \cup
               {[id |-> nextListId, user |-> UserOf(addReq[p].c), session_key |-> None,
                 product_type |-> addReq[p].model_name]}
    /\ nextListId' = nextListId + 1
    /\ addPc' = [addPc EXCEPT ![p] = "exists"]
    /\ addReq' = [addReq EXCEPT ![p].list_id = nextListId]
    /\ UNCHANGED <<comparisonitem, wishlistitem, nextItemId, nextWishId, session, response>>
    /\ UNCHANGED <<imgVars, catVars, subVars, rmVars, viewVars>>

\* lines 240-246: is the product in the list already
ItemExists(p) ==
    /\ addPc[p] = "exists"
    /\ IF \E x \in comparisonitem :
             /\ x.comparison_list = addReq[p].list_id
             /\ x.content_type = addReq[p].content_type
             /\ x.object_id = addReq[p].object_id
       THEN Respond(p, "redirect:comparison_view", "already")
       ELSE /\ addPc' = [addPc EXCEPT ![p] = "create_item"]
            /\ addReq' = addReq
    /\ UNCHANGED <<imgVars, catVars, cmpVars, subVars, rmVars, viewVars>>

\* lines 249-256: ComparisonItem.objects.create and the success redirect; the
\* insert of an item whose list was deleted meanwhile breaks the foreign key of
\* comparison_list and raises IntegrityError
CreateItem(p) ==
    /\ addPc[p] = "create_item"
    /\ IF \E l \in comparisonlist : l.id = addReq[p].list_id
       THEN /\ nextItemId <= MaxItems
            /\ comparisonitem' =
                   comparisonitem \cup
                       {[id |-> nextItemId, comparison_list |-> addReq[p].list_id,
                         content_type |-> addReq[p].content_type,
                         object_id |-> addReq[p].object_id]}
            /\ nextItemId' = nextItemId + 1
            /\ addPc' = [addPc EXCEPT ![p] = "done"]
            /\ addReq' = [addReq EXCEPT
                             ![p].item_id = nextItemId,
                             ![p].response = Response("redirect:comparison_view", "added")]
       ELSE /\ Respond(p, "500", None)
            /\ UNCHANGED <<comparisonitem, nextItemId>>
    /\ UNCHANGED <<comparisonlist, wishlistitem, nextListId, nextWishId, session, response>>
    /\ UNCHANGED <<imgVars, catVars, subVars, rmVars, viewVars>>

\* concurrent add_to_comparison requests, interleaved query by query
NextAddConc ==
    \/ \E p \in Adders, c \in AdderClients, sku \in RequestSkus : BeginAdd(p, c, sku)
    \/ \E p \in Adders : ReadLists(p)
    \/ \E p \in Adders : CheckOtherType(p)
    \/ \E p \in Adders : GetList(p)
    \/ \E p \in Adders : CreateList(p)
    \/ \E p \in Adders : ItemExists(p)
    \/ \E p \in Adders : CreateItem(p)

----------------------------------------------------------------------------
(* remove_from_comparison concurrent with add_to_comparison: views.py 298-325 *)

\* the concurrent removal requests
Removers == 1..NumRemovers

\* the local variables of a removal that has not started
NoRemoval ==
    [c |-> None, item_id |-> NoId, list_id |-> NoId, response |-> Response(None, None)]

RmInit ==
    /\ rmPc = [q \in Removers |-> "idle"]
    /\ rmReq = [q \in Removers |-> NoRemoval]

\* the removal ends with the response
RespondRemoval(q, status, notice) ==
    /\ rmPc' = [rmPc EXCEPT ![q] = "done"]
    /\ rmReq' = [rmReq EXCEPT ![q].response = Response(status, notice)]

\* lines 300-312: get_object_or_404, item.comparison_list, the ownership test
BeginRemove(q, c, item_id) ==
    /\ rmPc[q] = "idle"
    /\ IF ~\E x \in comparisonitem : x.id = item_id
       THEN /\ rmPc' = [rmPc EXCEPT ![q] = "done"]
            /\ rmReq' = [rmReq EXCEPT ![q].c = c, ![q].item_id = item_id,
                                      ![q].response = Response("404", None)]
       ELSE LET item == CHOOSE x \in comparisonitem : x.id = item_id
                list == CHOOSE l \in comparisonlist : l.id = item.comparison_list
            IN IF ~Permitted(c, list)
               THEN /\ rmPc' = [rmPc EXCEPT ![q] = "done"]
                    /\ rmReq' = [rmReq EXCEPT
                                    ![q].c = c, ![q].item_id = item_id,
                                    ![q].response =
                                        Response("redirect:comparison_view", "permission")]
               ELSE /\ rmPc' = [rmPc EXCEPT ![q] = "delete_item"]
                    /\ rmReq' = [rmReq EXCEPT ![q].c = c, ![q].item_id = item_id,
                                              ![q].list_id = list.id]
    /\ UNCHANGED <<imgVars, catVars, cmpVars, subVars, addVars, viewVars>>

\* line 315: item.delete()
DeleteItem(q) ==
    /\ rmPc[q] = "delete_item"
    /\ comparisonitem' = {x \in comparisonitem : x.id # rmReq[q].item_id}
    /\ rmPc' = [rmPc EXCEPT ![q] = "count"]
    /\ rmReq' = rmReq
    /\ UNCHANGED <<comparisonlist, wishlistitem, nextListId, nextItemId, nextWishId,
                   session, response>>
    /\ UNCHANGED <<imgVars, catVars, subVars, addVars, viewVars>>

\* line 318: comparison_list.items.count() == 0
CountItems(q) ==
    /\ rmPc[q] = "count"
    /\ IF {x \in comparisonitem : x.comparison_list = rmReq[q].list_id} = {}
       THEN /\ rmPc' = [rmPc EXCEPT ![q] = "delete_list"]
            /\ rmReq' = rmReq
       ELSE RespondRemoval(q, "redirect:comparison_view", "removed")
    /\ UNCHANGED <<imgVars, catVars, cmpVars, subVars, addVars, viewVars>>

\* lines 320-321: comparison_list.delete(), which deletes the list and, by the
\* cascade of ComparisonItem.comparison_list, every item that refers to it
DeleteList(q) ==
    /\ rmPc[q] = "delete_list"
    /\ comparisonlist' = {l \in comparisonlist : l.id # rmReq[q].list_id}
    /\ comparisonitem' = {x \in comparisonitem : x.comparison_list # rmReq[q].list_id}
    /\ RespondRemoval(q, "redirect:comparison_view", "removed_list_deleted")
    /\ UNCHANGED <<wishlistitem, nextListId, nextItemId, nextWishId, session, response>>
    /\ UNCHANGED <<imgVars, catVars, subVars, addVars, viewVars>>

\* add_to_comparison and remove_from_comparison requests, interleaved query by
\* query
NextRmConc ==
    \/ \E p \in Adders, c \in AdderClients, sku \in RequestSkus : BeginAdd(p, c, sku)
    \/ \E p \in Adders : ReadLists(p)
    \/ \E p \in Adders : CheckOtherType(p)
    \/ \E p \in Adders : GetList(p)
    \/ \E p \in Adders : CreateList(p)
    \/ \E p \in Adders : ItemExists(p)
    \/ \E p \in Adders : CreateItem(p)
    \/ \E q \in Removers, c \in AdderClients, id \in 1..MaxItems : BeginRemove(q, c, id)
    \/ \E q \in Removers : DeleteItem(q)
    \/ \E q \in Removers : CountItems(q)
    \/ \E q \in Removers : DeleteList(q)

----------------------------------------------------------------------------
(* comparison_view and wishlist_view: store/views.py 258-296, 369-385 *)

\* the template context of a list view: nothing has been rendered
NoContext == [view |-> None, rows |-> {}, items |-> {}]

ViewInit == context = NoContext

\* a mutation of VisibleRows: a visitor without a session is not told apart
VisibleRowsNoSessionTest(tbl, c) == RowsOf(tbl, c, session[c])

\* the query of the two views: filter(user=request.user) for a logged-in user,
\* none() for a visitor without a session key, else filter(session_key=...)
VisibleRows(tbl, c) ==
    IF ~IsAuthenticated(c) /\ session[c] = None
    THEN {}
    ELSE RowsOf(tbl, c, session[c])

\* comparison_view(request): the lists, and the items the template reads
\* through comparison_list.items
ComparisonView(c) ==
    /\ context' =
           [view |-> "comparison",
            rows |-> VisibleRows(comparisonlist, c),
            items |-> {x \in comparisonitem :
                          \E l \in VisibleRows(comparisonlist, c) : x.comparison_list = l.id}]
    /\ response' = Response("200", None)
    /\ UNCHANGED <<cmpTables, session, imgVars, catVars, subVars, addVars, rmVars>>

\* wishlist_view(request)
WishlistView(c) ==
    /\ context' = [view |-> "wishlist", rows |-> VisibleRows(wishlistitem, c), items |-> {}]
    /\ response' = Response("200", None)
    /\ UNCHANGED <<cmpTables, session, imgVars, catVars, subVars, addVars, rmVars>>

\* the add requests and the two list views
NextBrowse ==
    \/ \E c \in ViewClients, sku \in RequestSkus : AddToComparison(c, sku)
    \/ \E c \in ViewClients, sku \in RequestSkus : AddToWishlist(c, sku)
    \/ \E c \in ViewClients : ComparisonView(c)
    \/ \E c \in ViewClients : WishlistView(c)

----------------------------------------------------------------------------
(* The back office: store/admin.py, deleting a product *)

\* the admin deletes a stored product: the rows of ProductImage reached through
\* the product's GenericRelation are collected and deleted with it; no relation
\* leads from a product to ComparisonItem or WishlistItem, whose rows stay
DeleteProduct(r) ==
    /\ r \in product
    /\ product' = product \ {r}
    /\ productimage' = productimage \ ImagesOf(productimage, r.type, r.id)
    /\ UNCHANGED <<nextImageId, imgPc, imgInst, imgLast>>
    /\ UNCHANGED <<nextProductId, skuPc, skuInst>>
    /\ UNCHANGED <<cmpVars, subVars, addVars, rmVars, viewVars>>

\* a logged-in user adds products to her lists while the admin uploads primary
\* images of stored products and deletes products
NextBackOffice ==
    \/ \E sku \in RequestSkus : AddToComparison("alice", sku)
    \/ \E sku \in RequestSkus : AddToWishlist("alice", sku)
    \/ \E r \in product : CreateImage(r.type, r.id, TRUE)
    \/ \E r \in product : DeleteProduct(r)

----------------------------------------------------------------------------
(* Newsletter subscription: store/views.py 1097-1123, store/forms.py 98-114 *)

\* the email parameter of the posted forms; "" also stands for a missing one
PostedEmails == {"a@x.com", " a@x.com ", "A@x.com", "b@x.com", "c@y.org", "nobody", ""}

\* request.method
Methods == {"POST", "GET"}

\* the character of s at position i
CharAt(s, i) == SubSeq(s, i, i)

\* str.strip() of the form field (CharField, strip=True)
RECURSIVE Strip(_)
Strip(s) ==
    IF Len(s) = 0 THEN s
    ELSE IF CharAt(s, 1) = " " THEN Strip(SubSeq(s, 2, Len(s)))
    ELSE IF CharAt(s, Len(s)) = " " THEN Strip(SubSeq(s, 1, Len(s) - 1))
    ELSE s

\* the validator of EmailField: one "@" with a user part before it and a
\* dotted domain after it
IsEmail(s) ==
    \E i \in 2..(Len(s) - 1) :
        /\ CharAt(s, i) = "@"
        /\ \A j \in 1..Len(s) : CharAt(s, j) = "@" => j = i
        /\ \A j \in 1..Len(s) : CharAt(s, j) # " "
        /\ \E j \in (i + 2)..(Len(s) - 1) : CharAt(s, j) = "."

\* a mutation of CleanEmail: a stored email is accepted again
CleanEmailAcceptsStored(db, raw) ==
    LET email == Strip(raw) IN
    IF email = "" THEN [valid |-> FALSE, email |-> email, error |-> "required"]
    ELSE IF ~IsEmail(email) THEN [valid |-> FALSE, email |-> email, error |-> "invalid"]
    ELSE [valid |-> TRUE, email |-> email, error |-> None]

\* form.is_valid() of SubscriberForm: the field's own cleaning, then clean_email
CleanEmail(db, raw) ==
    LET email == Strip(raw) IN
    IF email = "" THEN [valid |-> FALSE, email |-> email, error |-> "required"]
    ELSE IF ~IsEmail(email) THEN [valid |-> FALSE, email |-> email, error |-> "invalid"]
    ELSE IF \E r \in db : r.email = email
    THEN [valid |-> FALSE, email |-> email, error |-> "already_subscribed"]
    ELSE [valid |-> TRUE, email |-> email, error |-> None]

\* a row of store_subscriber
Subscriber(id, email) == [id |-> id, email |-> email, is_active |-> TRUE]

\* response_data, and how it is delivered: JsonResponse for an AJAX request,
\* else a flash message and a redirect to the referer
ResponseData(ajax, success, message) ==
    [kind |-> IF ajax THEN "json" ELSE "redirect:referer",
     success |-> success, message |-> message]

\* the answer to a request that is not a POST: redirect('home'), no response_data
RedirectHome == [kind |-> "redirect:home"]

SubInit ==
    /\ subscriber = {}
    /\ nextSubscriberId = 1
    /\ reply = RedirectHome

\* subscribe_newsletter(request)
SubscribeNewsletter(method, raw, ajax) ==
    /\ IF method = "POST"
       THEN LET form == CleanEmail(subscriber, raw) IN
            IF form.valid
            THEN /\ nextSubscriberId <= MaxSubscribers
                 /\ subscriber' = subscriber \cup {Subscriber(nextSubscriberId, form.email)}
                 /\ nextSubscriberId' = nextSubscriberId + 1
                 /\ reply' = ResponseData(ajax, TRUE, "thank_you")
            ELSE /\ reply' = ResponseData(ajax, FALSE, form.error)
                 /\ UNCHANGED <<subscriber, nextSubscriberId>>
       ELSE /\ reply' = RedirectHome
            /\ UNCHANGED <<subscriber, nextSubscriberId>>
    /\ UNCHANGED <<imgVars, catVars, cmpVars, addVars, rmVars, viewVars>>

\* the subscription requests
NextSub ==
    \E method \in Methods, raw \in PostedEmails, ajax \in BOOLEAN :
        SubscribeNewsletter(method, raw, ajax)

\* C16: for a POST to subscribe_newsletter the reported outcome matches the
\* state change: success is true exactly when the request created a new
\* Subscriber record; a request whose email is already subscribed reports
\* success false and creates no record; at most one Subscriber exists per
\* email; a request that is not a POST changes no state.
C16_SubscriptionOutcome ==
    [][/\ \A raw \in PostedEmails, ajax \in BOOLEAN :
            /\ SubscribeNewsletter("POST", raw, ajax) =>
                  /\ reply'.kind # "redirect:home"
                  /\ reply'.success <=>
                        /\ Cardinality(subscriber' \ subscriber) = 1
                        /\ subscriber \subseteq subscriber'
                  /\ ~reply'.success => subscriber' = subscriber
                  /\ (\E r \in subscriber : r.email = Strip(raw)) =>
                        ~reply'.success /\ subscriber' = subscriber
            /\ SubscribeNewsletter("GET", raw, ajax) =>
                  /\ subscriber' = subscriber
                  /\ nextSubscriberId' = nextSubscriberId
       /\ \A a, b \in subscriber' : a.email = b.email => a = b]_vars

\* the subscription of a stored email was refused while two emails are subscribed
C16_Witness ==
    /\ reply = ResponseData(TRUE, FALSE, "already_subscribed")
    /\ Cardinality(subscriber) = 2
    /\ \E r \in subscriber : r.email = "a@x.com"

----------------------------------------------------------------------------
(* The listing views: store/views.py, laptops_list 62-150, product_list    *)
(* 651-964, all_products 966-1060                                          *)

\* --- text as Python handles it

\* str.lower() and str.upper() of one cased character
LowerOf ==
    [A |-> "a", B |-> "b", C |-> "c", D |-> "d", E |-> "e", F |-> "f", G |-> "g", H |-> "h", I |-> "i",
     J |-> "j", K |-> "k", L |-> "l", M |-> "m", N |-> "n", O |-> "o", P |-> "p", Q |-> "q", R |-> "r",
     S |-> "s", T |-> "t", U |-> "u", V |-> "v", W |-> "w", X |-> "x", Y |-> "y", Z |-> "z"]

UpperOf ==
    [a |-> "A", b |-> "B", c |-> "C", d |-> "D", e |-> "E", f |-> "F", g |-> "G", h |-> "H", i |-> "I",
     j |-> "J", k |-> "K", l |-> "L", m |-> "M", n |-> "N", o |-> "O", p |-> "P", q |-> "Q", r |-> "R",
     s |-> "S", t |-> "T", u |-> "U", v |-> "V", w |-> "W", x |-> "X", y |-> "Y", z |-> "Z"]

\* str.lower()
RECURSIVE Lower(_)
Lower(s) ==
    IF Len(s) = 0 THEN s
    ELSE LET ch == CharAt(s, 1)
         IN (IF ch \in DOMAIN LowerOf THEN LowerOf[ch] ELSE ch) \o Lower(SubSeq(s, 2, Len(s)))

\* str.upper()
RECURSIVE Upper(_)
Upper(s) ==
    IF Len(s) = 0 THEN s
    ELSE LET ch == CharAt(s, 1)
         IN (IF ch \in DOMAIN UpperOf THEN UpperOf[ch] ELSE ch) \o Upper(SubSeq(s, 2, Len(s)))

\* the lookups field__iexact and field__icontains
IExact(field, text) == Lower(field) = Lower(text)

IContains(field, text) ==
    \E i \in 1..(Len(field) - Len(text) + 1) :
        Lower(SubSeq(field, i, i + Len(text) - 1)) = Lower(text)

\* ord() of the characters that occur in the stored names
Ord ==
    " " :> 32 @@ "0" :> 48 @@ "1" :> 49 @@ "2" :> 50 @@ "3" :> 51 @@ "4" :> 52
    @@ "5" :> 53 @@ "6" :> 54 @@ "7" :> 55 @@ "8" :> 56 @@ "9" :> 57 @@ "A" :> 65
    @@ "B" :> 66 @@ "C" :> 67 @@ "D" :> 68 @@ "E" :> 69 @@ "F" :> 70 @@ "G" :> 71
    @@ "H" :> 72 @@ "I" :> 73 @@ "J" :> 74 @@ "K" :> 75 @@ "L" :> 76 @@ "M" :> 77
    @@ "N" :> 78 @@ "O" :> 79 @@ "P" :> 80 @@ "Q" :> 81 @@ "R" :> 82 @@ "S" :> 83
    @@ "T" :> 84 @@ "U" :> 85 @@ "V" :> 86 @@ "W" :> 87 @@ "X" :> 88 @@ "Y" :> 89
    @@ "Z" :> 90 @@ "_" :> 95 @@ "a" :> 97 @@ "b" :> 98 @@ "c" :> 99 @@ "d" :> 100
    @@ "e" :> 101 @@ "f" :> 102 @@ "g" :> 103 @@ "h" :> 104 @@ "i" :> 105 @@ "j" :> 106
    @@ "k" :> 107 @@ "l" :> 108 @@ "m" :> 109 @@ "n" :> 110 @@ "o" :> 111 @@ "p" :> 112
    @@ "q" :> 113 @@ "r" :> 114 @@ "s" :> 115 @@ "t" :> 116 @@ "u" :> 117 @@ "v" :> 118
    @@ "w" :> 119 @@ "x" :> 120 @@ "y" :> 121 @@ "z" :> 122

\* the order of two str values: by code point, a prefix first
RECURSIVE StrLess(_, _)
StrLess(a, b) ==
    IF Len(b) = 0 THEN FALSE
    ELSE IF Len(a) = 0 THEN TRUE
    ELSE IF CharAt(a, 1) = CharAt(b, 1)
         THEN StrLess(SubSeq(a, 2, Len(a)), SubSeq(b, 2, Len(b)))
         ELSE Ord[CharAt(a, 1)] < Ord[CharAt(b, 1)]

\* --- int() and float() of a request parameter

ValueError == [error |-> "ValueError"]

\* the decimal digits and their values
DigitOf ==
    "0" :> 0 @@ "1" :> 1 @@ "2" :> 2 @@ "3" :> 3 @@ "4" :> 4
    @@ "5" :> 5 @@ "6" :> 6 @@ "7" :> 7 @@ "8" :> 8 @@ "9" :> 9

IsDigits(s) == Len(s) > 0 /\ \A i \in 1..Len(s) : CharAt(s, i) \in DOMAIN DigitOf

RECURSIVE DigitsValue(_)
DigitsValue(s) ==
    IF Len(s) = 0 THEN 0
    ELSE DigitsValue(SubSeq(s, 1, Len(s) - 1)) * 10 + DigitOf[CharAt(s, Len(s))]

\* the literal without its sign, and the sign
Unsigned(s) == IF Len(s) > 0 /\ CharAt(s, 1) \in {"+", "-"} THEN SubSeq(s, 2, Len(s)) ELSE s
Sign(s) == IF Len(s) > 0 /\ CharAt(s, 1) = "-" THEN 0 - 1 ELSE 1

\* int(text): optional blanks around an optional sign and decimal digits
ParseInt(text) ==
    LET s == Strip(text)
    IN IF IsDigits(Unsigned(s))
       THEN [value |-> Sign(s) * DigitsValue(Unsigned(s))]
       ELSE ValueError

RECURSIVE Pow10(_)
Pow10(n) == IF n = 0 THEN 1 ELSE 10 * Pow10(n - 1)

\* float(text) of a decimal literal, as the fraction num / den (the exponent
\* form and the literals nan and inf, which float() parses too, are not drawn)
ParseFloat(text) ==
    LET s == Unsigned(Strip(text))
        dots == {i \in 1..Len(s) : CharAt(s, i) = "."}
    IN IF dots = {}
       THEN IF IsDigits(s) THEN [num |-> Sign(Strip(text)) * DigitsValue(s), den |-> 1]
            ELSE ValueError
       ELSE IF Cardinality(dots) > 1 THEN ValueError
       ELSE LET i == CHOOSE d \in dots : TRUE
                whole == SubSeq(s, 1, i - 1)
                frac == SubSeq(s, i + 1, Len(s))
            IN IF /\ Len(whole) + Len(frac) > 0
                  /\ Len(whole) = 0 \/ IsDigits(whole)
                  /\ Len(frac) = 0 \/ IsDigits(frac)
               THEN [num |-> Sign(Strip(text)) *
                                 (DigitsValue(whole) * Pow10(Len(frac)) + DigitsValue(frac)),
                     den |-> Pow10(Len(frac))]
               ELSE ValueError

\* the values of the optional price column: NULL, read as None, or a Decimal
Null == [null |-> TRUE]
Decimal(v) == [decimal |-> v]

\* a mutation of Skipped: only an empty parameter leaves the filter out
SkippedIfEmpty(text, parsed) == text = ""

\* if text: try: ... except (ValueError, TypeError): pass -- the filter is left
\* out when the parameter is empty or its conversion raised
Skipped(text, parsed) == text = "" \/ parsed = ValueError

\* if text: try: filter(column=int(text)) except (ValueError, TypeError): pass
\* and the same with column__gte; value is the row's column
PassesInt(text, lookup, value) ==
    \/ Skipped(text, ParseInt(text))
    \/ /\ ParseInt(text) # ValueError
       /\ IF lookup = "exact" THEN value = ParseInt(text).value
                              ELSE value >= ParseInt(text).value

\* if text: try: filter(price__gte=float(text)) except (ValueError, TypeError): pass
PassesFloat(text, price) ==
    \/ Skipped(text, ParseFloat(text))
    \/ /\ ParseFloat(text) # ValueError
       /\ price # Null
       /\ price.decimal * ParseFloat(text).den >= ParseFloat(text).num

\* --- the product tables as the listing views read them

\* a row of a product table with the columns the listing views read; key is
\* vram of a GPU, cores of a CPU and ram_capacity of a Laptop
ProductRow(type, id, name, brand, description, sku, condition, price, key) ==
    [type |-> type, id |-> id, name |-> name, brand |-> brand,
     description |-> description, sku |-> sku, condition |-> condition,
     price |-> price, key |-> key]

\* the rows the back office may have stored
ListingPool ==
    { ProductRow("GPU", 1, "RTX Alpha", "ASUS", "fast", "ASURTX8111111", "new", Decimal(5), 8),
      ProductRow("GPU", 2, "gtx beta", "msi", "", "msigtx8222222", "used", Decimal(0), 8),
      ProductRow("GPU", 3, "Arc", "Intel", "beats an RTX", "IntArc4333333", "new", Null, 4),
      ProductRow("CPU", 1, "Core i5", "Intel", "", "IntCor4444444", "new", Decimal(10), 4),
      ProductRow("Laptop", 1, "Zen", "Asus", "", "AsuZenRyz555555", "new", Decimal(5), 8),
      ProductRow("Laptop", 2, "Air", "Apple", "", "AppAirM1 666666", "used", Null, 16),
      ProductRow("OtherAccessory", 1, "Cable", "Asus", "for asus boards", "AsuCabCab777777", "new", Decimal(0), 0) }

\* the catalogs the listing views are run on
Catalogs == {c \in SUBSET ListingPool : Cardinality(c) <= MaxListed}

\* the rows a sequence holds
Range(seq) == {seq[i] : i \in DOMAIN seq}

\* model_class.objects.all(), iterated: the rows of one table by primary key
Objects(model_class) ==
    LET S == {x \in product : x.type = model_class}
        f[n \in 0..Cardinality(S)] ==
            IF n = 0 THEN <<>>
            ELSE LET rest == S \ Range(f[n - 1])
                 IN Append(f[n - 1], CHOOSE x \in rest : \A y \in rest : x.id <= y.id)
    IN f[Cardinality(S)]

\* request.GET; a parameter that is absent reads like an empty one, and
\* sort_by defaults to newest
NoQuery ==
    [brand |-> "", condition |-> "", sort_by |-> "newest", vram |-> "",
     cores |-> "", min_ram |-> "", min_price |-> "", q |-> "", category |-> ""]

\* float('inf'): above every DecimalField(max_digits=10, decimal_places=2)
Infinity == 100000000

\* a mutation of Truthy: only a missing price is false
TruthyIfPresent(price) == price # Null

\* the truth value of x.price: None and Decimal('0') are both false
Truthy(price) == price # Null /\ price # Decimal(0)

\* the sort_by branches of product_list and all_products: a's key sorts
\* strictly before b's
SortBefore(sort_by, a, b) ==
    CASE sort_by = "price_low" ->
            (IF Truthy(a.price) THEN a.price.decimal ELSE Infinity)
                < (IF Truthy(b.price) THEN b.price.decimal ELSE Infinity)
      [] sort_by = "price_high" ->
            (IF Truthy(a.price) THEN a.price.decimal ELSE 0 - Infinity)
                > (IF Truthy(b.price) THEN b.price.decimal ELSE 0 - Infinity)
      [] sort_by = "name_asc" -> StrLess(Lower(a.name), Lower(b.name))
      [] sort_by = "name_desc" -> StrLess(Lower(b.name), Lower(a.name))
      [] OTHER -> a.id > b.id

\* order_by of laptops_list; where the rows without a price go is the
\* database's choice: nulls_low is true where NULL sorts below every value
OrderBefore(sort_by, nulls_low, a, b) ==
    LET null == IF nulls_low THEN 0 - Infinity ELSE Infinity
        Price(x) == IF x.price = Null THEN null ELSE x.price.decimal
    IN CASE sort_by = "price_low" -> Price(a) < Price(b)
         [] sort_by = "price_high" -> Price(a) > Price(b)
         [] sort_by = "name_asc" -> StrLess(a.name, b.name)
         [] sort_by = "name_desc" -> StrLess(b.name, a.name)
         [] OTHER -> a.id > b.id

\* list.sort(key=...) and order_by(...): a stable sort of seq; order names the
\* view, its sort_by and, for the database, where NULL sorts; the entries of
\* all_products are compared by their product
SortedBy(seq, order) ==
    LET Before(a, b) ==
            CASE order.view = "laptops_list" ->
                    OrderBefore(order.sort_by, order.nulls_low, a, b)
              [] order.view = "all_products" ->
                    SortBefore(order.sort_by, a.product, b.product)
              [] OTHER -> SortBefore(order.sort_by, a, b)
        Insert(s, x) ==
            LET p == Cardinality({i \in 1..Len(s) : ~Before(x, s[i])})
            IN SubSeq(s, 1, p) \o <<x>> \o SubSeq(s, p + 1, Len(s))
        f[n \in 0..Len(seq)] == IF n = 0 THEN <<>> ELSE Insert(f[n - 1], seq[n])
    IN f[Len(seq)]

\* model_map of product_list
ProductListModelMap ==
    [gpu |-> "GPU", cpu |-> "CPU", ram |-> "RAM", motherboard |-> "Motherboard",
     case |-> "Case", storage |-> "StorageDevice", psu |-> "PSU",
     monitor |-> "Monitor", tablet |-> "Tablet", laptop |-> "Laptop",
     mouse |-> "Mouse", keyboard |-> "Keyboard", headset |-> "Headset",
     speakers |-> "Speakers"]

\* a mutation of ProductTypeOf: the keyword is looked up as it was given
ProductTypeAsGiven(keyword) == keyword

\* product_type.lower()
ProductTypeOf(keyword) == Lower(keyword)

\* the filters of product_list on one row: brand, condition, and the numeric
\* parameter of the listed type
ProductListKeeps(product_type, GET, x) ==
    /\ GET.brand # "" => IExact(x.brand, GET.brand)
    /\ GET.condition # "" => IExact(x.condition, GET.condition)
    /\ product_type = "gpu" => PassesInt(GET.vram, "exact", x.key)
    /\ product_type = "cpu" => PassesInt(GET.cores, "gte", x.key)
    /\ product_type = "laptop" => PassesInt(GET.min_ram, "gte", x.key)

\* product_list(request, product_type)
ProductList(keyword, GET) ==
    LET product_type == ProductTypeOf(keyword)
    IN /\ IF product_type \notin DOMAIN ProductListModelMap
          THEN /\ response' = Response("redirect:home", "Invalid product type: " \o product_type)
               /\ context' = NoContext
          ELSE LET Keep(x) == ProductListKeeps(product_type, GET, x)
                   order == [view |-> "product_list", sort_by |-> GET.sort_by]
                   products == SelectSeq(Objects(ProductListModelMap[product_type]), Keep)
               IN /\ context' = [view |-> "product_list",
                                 request |-> [product_type |-> keyword, GET |-> GET],
                                 product_type |-> product_type,
                                 products |-> SortedBy(products, order)]
                  /\ response' = Response("200", None)
       /\ UNCHANGED <<cmpTables, session, imgVars, catVars, subVars, addVars, rmVars>>

\* model_map of all_products, in the order of its entries
AllProductsModelMap ==
    << <<"GPU", "GPU">>, <<"CPU", "CPU">>, <<"RAM", "RAM">>,
       <<"MOTHERBOARD", "Motherboard">>, <<"CASE", "Case">>,
       <<"STORAGE", "StorageDevice">>, <<"PSU", "PSU">>, <<"MONITOR", "Monitor">>,
       <<"TABLET", "Tablet">>, <<"LAPTOP", "Laptop">>, <<"MOUSE", "Mouse">>,
       <<"KEYBOARD", "Keyboard">>, <<"HEADSET", "Headset">>,
       <<"SPEAKERS", "Speakers">>, <<"OTHER_ACCESSORY", "OtherAccessory">> >>

\* a mutation of AllProductsKeeps: the condition parameter is not applied
AllProductsKeepsAnyCondition(GET, x) ==
    GET.q # "" => \/ IContains(x.name, GET.q)
                  \/ IContains(x.brand, GET.q)
                  \/ IContains(x.description, GET.q)
                  \/ IContains(x.sku, GET.q)

\* the filters of all_products on one row: the query and the condition
AllProductsKeeps(GET, x) ==
    /\ GET.q # "" => \/ IContains(x.name, GET.q)
                     \/ IContains(x.brand, GET.q)
                     \/ IContains(x.description, GET.q)
                     \/ IContains(x.sku, GET.q)
    /\ GET.condition # "" => x.condition = GET.condition

\* all_products(request)
AllProducts(GET) ==
    LET Keep(x) == AllProductsKeeps(GET, x)
        Entry(model_name, seq) ==
            [i \in 1..Len(seq) |-> [type |-> model_name, product |-> seq[i]]]
        Of(entry) ==
            IF GET.category # "" /\ Upper(GET.category) # entry[1]
            THEN <<>>
            ELSE Entry(entry[1], SelectSeq(Objects(entry[2]), Keep))
        results[n \in 0..Len(AllProductsModelMap)] ==
            IF n = 0 THEN <<>> ELSE results[n - 1] \o Of(AllProductsModelMap[n])
        order == [view |-> "all_products", sort_by |-> GET.sort_by]
        sorted == SortedBy(results[Len(AllProductsModelMap)], order)
    IN /\ context' = [view |-> "all_products",
                      request |-> [GET |-> GET],
                      products |-> sorted,
                      total_count |-> Len(sorted)]
       /\ response' = Response("200", None)
       /\ UNCHANGED <<cmpTables, session, imgVars, catVars, subVars, addVars, rmVars>>

\* the filters of laptops_list on one row
LaptopsListKeeps(GET, x) ==
    /\ GET.brand # "" => IExact(x.brand, GET.brand)
    /\ GET.condition # "" => IExact(x.condition, GET.condition)
    /\ PassesFloat(GET.min_price, x.price)
    /\ PassesInt(GET.min_ram, "gte", x.key)

\* laptops_list(request)
LaptopsList(GET, nulls_low) ==
    LET Keep(x) == LaptopsListKeeps(GET, x)
        order == [view |-> "laptops_list", sort_by |-> GET.sort_by, nulls_low |-> nulls_low]
    IN /\ context' = [view |-> "laptops_list",
                      request |-> [GET |-> GET],
                      laptops |-> SortedBy(SelectSeq(Objects("Laptop"), Keep), order)]
       /\ response' = Response("200", None)
       /\ UNCHANGED <<cmpTables, session, imgVars, catVars, subVars, addVars, rmVars>>

\* the values the requests are drawn from
Keywords == {"gpu", "GPU", "cpu", "Laptop", "tv"}
Brands == {"", "asus"}
Conditions == {"", "new"}
SortOrders == {"newest", "price_low", "price_high", "name_asc", "name_desc"}
NumberTexts == {"", "8", "abc", "4.5"}
Searches == {"", "rtx", "asu"}
Categories == {"", "gpu", "Other_Accessory", "tv"}

\* the query strings of product_list
ProductListQueries ==
    {[NoQuery EXCEPT !.brand = b, !.condition = c] : b \in Brands, c \in Conditions}
    \cup {[NoQuery EXCEPT !.condition = c, !.vram = n, !.cores = n, !.min_ram = n] :
              c \in Conditions, n \in NumberTexts}
    \cup {[NoQuery EXCEPT !.condition = c, !.sort_by = s] : c \in Conditions, s \in SortOrders}

\* the query strings of all_products
AllProductsQueries ==
    {[NoQuery EXCEPT !.q = q, !.category = k] : q \in Searches, k \in Categories}
    \cup {[NoQuery EXCEPT !.condition = c, !.category = k] : c \in Conditions, k \in Categories}
    \cup {[NoQuery EXCEPT !.condition = c, !.sort_by = s] : c \in Conditions, s \in SortOrders}

\* the query strings of laptops_list
LaptopsListQueries ==
    {[NoQuery EXCEPT !.brand = b, !.condition = c] : b \in Brands, c \in Conditions}
    \cup {[NoQuery EXCEPT !.min_price = p, !.min_ram = n] : p \in NumberTexts, n \in NumberTexts}
    \cup {[NoQuery EXCEPT !.sort_by = s] : s \in SortOrders}

\* the listing requests
NextListing ==
    \/ \E keyword \in Keywords, GET \in ProductListQueries : ProductList(keyword, GET)
    \/ \E GET \in AllProductsQueries : AllProducts(GET)
    \/ \E GET \in LaptopsListQueries, nulls_low \in BOOLEAN : LaptopsList(GET, nulls_low)

----------------------------------------------------------------------------
(* Properties of the listing views *)

\* the products a rendered listing shows, in the order shown
Shown ==
    IF context.view = "product_list" THEN context.products
    ELSE IF context.view = "all_products"
         THEN [i \in 1..Len(context.products) |-> context.products[i].product]
    ELSE IF context.view = "laptops_list" THEN context.laptops
    ELSE <<>>

\* the rows of the product tables that pass the filters of the rendered request
Filtered ==
    IF context.view = "product_list"
    THEN {x \in product : /\ x.type = ProductListModelMap[context.product_type]
                          /\ ProductListKeeps(context.product_type, context.request.GET, x)}
    ELSE IF context.view = "all_products"
    THEN {x \in product :
             /\ \E n \in 1..Len(AllProductsModelMap) :
                    /\ AllProductsModelMap[n][2] = x.type
                    /\ context.request.GET.category # "" =>
                           Upper(context.request.GET.category) = AllProductsModelMap[n][1]
             /\ AllProductsKeeps(context.request.GET, x)}
    ELSE {}

\* C25: with sort_by = price_low, product_list and all_products show the
\* filtered products so that the products that have a price, a price of 0
\* included, are in non-decreasing price order and every product without a
\* price comes after all of them; with sort_by = price_high the priced products
\* are in non-increasing order, again followed by the unpriced ones; what is
\* shown is a permutation of the filtered set.
C25_PriceSortKeepsPricedFirst ==
    (/\ context.view \in {"product_list", "all_products"}
     /\ context.request.GET.sort_by \in {"price_low", "price_high"}) =>
        /\ \A i, j \in 1..Len(Shown) :
              (i < j /\ Shown[i].price # Null /\ Shown[j].price # Null) =>
                  IF context.request.GET.sort_by = "price_low"
                  THEN Shown[i].price.decimal <= Shown[j].price.decimal
                  ELSE Shown[i].price.decimal >= Shown[j].price.decimal
        /\ \A i, j \in 1..Len(Shown) :
              (i < j /\ Shown[i].price = Null) => Shown[j].price = Null
        /\ Range(Shown) = Filtered
        /\ Len(Shown) = Cardinality(Filtered)

\* C26: all_products returns exactly the products, over all its types, that
\* satisfy every active filter: the type's code equals the category parameter
\* compared without regard to case, the query occurs in the name, brand,
\* description or SKU, and the condition equals the condition parameter; each
\* such product appears exactly once, total_count is the number of results,
\* and a category that names no type yields an empty result.
C26_AllProductsReturnsMatching ==
    context.view = "all_products" =>
        LET GET == context.request.GET
            Codes(x) == {AllProductsModelMap[n][1] : n \in
                            {k \in 1..Len(AllProductsModelMap) : AllProductsModelMap[k][2] = x.type}}
            Matches(x) ==
                /\ Codes(x) # {}
                /\ GET.category # "" => \E code \in Codes(x) : Lower(code) = Lower(GET.category)
                /\ GET.q # "" => \E field \in {x.name, x.brand, x.description, x.sku} :
                                     IContains(field, GET.q)
                /\ GET.condition # "" => x.condition = GET.condition
        IN /\ Range(Shown) = {x \in product : Matches(x)}
           /\ Len(Shown) = Cardinality(Range(Shown))
           /\ \A i \in 1..Len(Shown) : context.products[i].type \in Codes(Shown[i])
           /\ context.total_count = Len(context.products)
           /\ (/\ GET.category # ""
               /\ \A n \in 1..Len(AllProductsModelMap) :
                      Lower(AllProductsModelMap[n][1]) # Lower(GET.category)) =>
                  context.products = <<>>

\* a search within one category, named in mixed case, returned one of two products
C26_Witness ==
    /\ context.view = "all_products"
    /\ context.request.GET.category = "Other_Accessory"
    /\ context.request.GET.q = "asu"
    /\ context.total_count = 1
    /\ Cardinality(product) = 2

\* C27: a numeric filter parameter of product_list or laptops_list whose value
\* cannot be parsed as a number is ignored: the request does not fail and
\* shows the products that the same request without that parameter shows,
\* the other filters still applied.
C27_UnparsableNumberIgnored ==
    LET GET == context.request.GET
        Common(x) ==
            /\ GET.brand # "" => Lower(x.brand) = Lower(GET.brand)
            /\ GET.condition # "" => Lower(x.condition) = Lower(GET.condition)
        Number == CASE context.product_type = "gpu" -> GET.vram
                    [] context.product_type = "cpu" -> GET.cores
                    [] context.product_type = "laptop" -> GET.min_ram
                    [] OTHER -> ""
    IN /\ (/\ context.view = "product_list"
            /\ Number # ""
            /\ ParseInt(Number) = ValueError) =>
              /\ response.status = "200"
              /\ Range(Shown) = {x \in product :
                                    /\ x.type = ProductListModelMap[context.product_type]
                                    /\ Common(x)}
              /\ Len(Shown) = Cardinality(Range(Shown))
       /\ (/\ context.view = "laptops_list"
            /\ GET.min_price # ""
            /\ ParseFloat(GET.min_price) = ValueError) =>
              /\ response.status = "200"
              /\ Range(Shown) = {x \in product :
                                    /\ x.type = "Laptop"
                                    /\ Common(x)
                                    /\ (GET.min_ram # "" /\ ParseInt(GET.min_ram) # ValueError) =>
                                           x.key >= ParseInt(GET.min_ram).value}
              /\ Len(Shown) = Cardinality(Range(Shown))
       /\ (/\ context.view = "laptops_list"
            /\ GET.min_ram # ""
            /\ ParseInt(GET.min_ram) = ValueError) =>
              /\ response.status = "200"
              /\ Range(Shown) = {x \in product :
                                    /\ x.type = "Laptop"
                                    /\ Common(x)
                                    /\ (GET.min_price # "" /\ ParseFloat(GET.min_price) # ValueError) =>
                                           /\ x.price # Null
                                           /\ x.price.decimal * ParseFloat(GET.min_price).den
                                                  >= ParseFloat(GET.min_price).num}
              /\ Len(Shown) = Cardinality(Range(Shown))

\* the GPUs were listed with vram = abc and condition = new: the condition
\* kept one of the two stored GPUs
C27_Witness ==
    /\ context.view = "product_list"
    /\ context.product_type = "gpu"
    /\ context.request.GET.vram = "abc"
    /\ context.request.GET.condition = "new"
    /\ Len(context.products) = 1
    /\ Cardinality({x \in product : x.type = "GPU"}) = 2

\* the notice of product_list for a keyword without a model
InvalidTypeNotice == "Invalid product type: "

\* C28: product_list compares the category keyword against its name-to-type
\* map without regard to case: for a keyword in the map every listed product is
\* of the mapped type, and for a keyword outside the map the request redirects
\* to home with an 'Invalid product type' notice and lists nothing.
C28_KeywordSelectsOneType ==
    /\ context.view = "product_list" =>
          LET keyword == Lower(context.request.product_type)
          IN /\ keyword \in DOMAIN ProductListModelMap
             /\ \A i \in 1..Len(Shown) : Shown[i].type = ProductListModelMap[keyword]
    /\ (/\ response.status = "redirect:home"
         /\ response.notice # None
         /\ SubSeq(response.notice, 1, Len(InvalidTypeNotice)) = InvalidTypeNotice) =>
          /\ context = NoContext
          /\ Lower(SubSeq(response.notice, Len(InvalidTypeNotice) + 1, Len(response.notice)))
                 \notin DOMAIN ProductListModelMap

\* the keyword GPU, in capitals, listed the stored GPU and not the other product
C28_Witness ==
    /\ context.view = "product_list"
    /\ context.request.product_type = "GPU"
    /\ Len(context.products) = 1
    /\ \E x \in product : x.type # "GPU"

----------------------------------------------------------------------------
(* Properties of the SKU format *)

\* the instances whose save() has formed an SKU
Formed == {skuInst[p] : p \in {q \in Creators : skuPc[q] # "idle"}}

\* sku is base followed by six decimal digits
EndsInSixDigits(sku, base) ==
    /\ Len(sku) = Len(base) + 6
    /\ SubSeq(sku, 1, Len(base)) = base
    /\ \A i \in (Len(base) + 1)..Len(sku) : CharAt(sku, i) \in DOMAIN DigitOf

\* C29: on the first save of a product whose SKU is empty, the SKU is set to
\* the first three characters of the brand, followed by the first three
\* characters of the model name, followed by the type's key specification,
\* followed by a six-character suffix of decimal digits; every persisted
\* product record has a non-empty SKU.
C29_SkuIsBrandModelKeySpecDigits ==
    /\ \A inst \in Formed :
          LET spec == CASE inst.type = "Tablet" -> ToString(inst.ram) \o ToString(inst.storage)
                        [] inst.type = "OtherAccessory" -> inst.category
                        [] OTHER -> ToString(inst.key)
          IN EndsInSixDigits(inst.sku, Prefix(inst.brand, 3) \o Prefix(inst.model, 3) \o spec)
    /\ \A r \in product : r.sku # ""

\* C29, amended: the SKU is the first three characters of the brand, the
\* first three characters of the model name, the key specification -- in full
\* when it is numeric (for a Tablet the RAM followed by the storage), its
\* first three characters when it is a text such as the category of an
\* OtherAccessory -- and six decimal digits; every persisted product record
\* has a non-empty SKU.
C29_SkuIsBrandModelKeyPartDigits ==
    /\ \A inst \in Formed :
          LET part == CASE inst.type = "Tablet" -> ToString(inst.ram) \o ToString(inst.storage)
                        [] inst.type = "OtherAccessory" -> Prefix(inst.category, 3)
                        [] OTHER -> ToString(inst.key)
          IN EndsInSixDigits(inst.sku, Prefix(inst.brand, 3) \o Prefix(inst.model, 3) \o part)
    /\ \A r \in product : r.sku # ""

\* an accessory whose category is longer than three characters and a tablet
\* are stored after their first save
C29_Witness ==
    /\ \E r \in product : r.type = "OtherAccessory" /\ r.category = "Cooling Pad"
                                /\ r.sku = "GenPadCoo298634"
    /\ \E r \in product : r.type = "Tablet"

----------------------------------------------------------------------------
(* Properties of the references to products *)

\* the product record a type-plus-identifier reference points at is stored
Stored(content_type, object_id) ==
    \E r \in product : r.type = content_type /\ r.id = object_id

\* C30: every stored comparison item and wishlist item refers to a product
\* record that exists: after any sequence of browsing requests and back-office
\* product deletions no item's type-plus-identifier reference points at a
\* deleted product, and the images of a deleted product are deleted with it.
C30_ItemsReferToStoredProducts ==
    /\ \A x \in comparisonitem : Stored(x.content_type, x.object_id)
    /\ \A w \in wishlistitem : Stored(w.content_type, w.object_id)
    /\ \A i \in productimage : Stored(i.content_type, i.object_id)

----------------------------------------------------------------------------
(* Properties of the comparison lists and the wishlist *)

\* the identity that owns a list or a wishlist item: the logged-in user of the
\* row, or the anonymous visitor whose session key the row holds; a visitor
\* without a session owns nothing
Owns(c, row) ==
    IF IsAuthenticated(c)
    THEN row.user = UserOf(c)
    ELSE session[c] # None /\ row.session_key = session[c]

ListOfItem(x) == CHOOSE l \in comparisonlist : l.id = x.comparison_list

\* the request ended in a redirect with the permission notice and deleted nothing
DeniedStep ==
    /\ response'.status \in {"redirect:comparison_view", "redirect:wishlist_view"}
    /\ response'.notice = "permission"
    /\ UNCHANGED <<comparisonlist, comparisonitem, wishlistitem>>

\* C8: remove_from_comparison, clear_comparison and remove_from_wishlist asked
\* for by an identity that does not own the targeted list or item end in a
\* redirect with a permission notice and delete nothing.
C8_OwnershipEnforced ==
    [][\A c \in Clients :
          /\ \A x \in comparisonitem :
                (RemoveFromComparison(c, x.id) /\ ~Owns(c, ListOfItem(x))) => DeniedStep
          /\ \A l \in comparisonlist :
                (ClearComparison(c, l.id) /\ ~Owns(c, l)) => DeniedStep
          /\ \A w \in wishlistitem :
                (RemoveFromWishlist(c, w.id) /\ ~Owns(c, w)) => DeniedStep]_vars

\* C9: every item of every comparison list refers to a product of the class the
\* list's product_type names, so no list holds items of two product types.
C9_ListsHomogeneous ==
    \A x \in comparisonitem :
        /\ \E l \in comparisonlist : l.id = x.comparison_list
        /\ \A l \in comparisonlist :
              l.id = x.comparison_list =>
                  /\ ModelMap[l.product_type] = x.content_type
                  /\ \E r \in product :
                        r.type = ModelMap[l.product_type] /\ r.id = x.object_id
                  /\ \A y \in ItemsOf(comparisonitem, l) : y.content_type = x.content_type

\* lists of two product types hold items, and an add of the other type was refused
C9_Witness ==
    /\ response.notice = "other_type"
    /\ \E l, m \in comparisonlist :
          /\ l.product_type # m.product_type
          /\ ItemsOf(comparisonitem, l) # {} /\ ItemsOf(comparisonitem, m) # {}

\* C10: every comparison list has exactly one owner: its user is set and its
\* session_key is empty, or its session_key is a non-empty key and its user is
\* empty.
C10_ListHasOneOwner ==
    \A l \in comparisonlist :
        \/ l.user # None /\ l.session_key = None
        \/ l.user = None /\ l.session_key # None /\ l.session_key # ""

\* a list of a logged-in user and a list of an anonymous session exist
C10_Witness ==
    /\ \E l \in comparisonlist : l.user # None
    /\ \E l \in comparisonlist : l.session_key \in SessionKeys
    /\ \E c \in Clients : ~IsAuthenticated(c) /\ session[c] = None

\* C11: when the owner's remove_from_comparison removes the only remaining item
\* of a comparison list, the list no longer exists after the request; when other
\* items remain, the list still exists and holds exactly the other items.
C11_RemoveDeletesEmptiedList ==
    [][\A c \in Clients : \A x \in comparisonitem :
          (RemoveFromComparison(c, x.id) /\ Owns(c, ListOfItem(x))) =>
              LET list == ListOfItem(x)
                  others == ItemsOf(comparisonitem, list) \ {x}
              IN IF others = {}
                 THEN /\ ~\E l \in comparisonlist' : l.id = list.id
                      /\ ItemsOf(comparisonitem', list) = {}
                 ELSE /\ list \in comparisonlist'
                      /\ ItemsOf(comparisonitem', list) = others]_vars

\* two items were added to one list; a removal left the list with the other
\* item, and the removal of that item deleted the list
C11_Witness ==
    /\ response.notice = "removed_list_deleted"
    /\ nextListId = 2
    /\ nextItemId = 3
    /\ comparisonlist = {}
    /\ comparisonitem = {}

\* C12: between requests no empty comparison list exists: after any sequence of
\* completed add_to_comparison, remove_from_comparison and clear_comparison
\* requests every stored comparison list has at least one item.
C12_NoEmptyList ==
    \A l \in comparisonlist : ItemsOf(comparisonitem, l) # {}

\* a removal left a list with one item while a second list was cleared
C12_Witness ==
    /\ response.notice \in {"removed", "cleared"}
    /\ Cardinality(comparisonlist) = 1
    /\ nextListId = 3
    /\ \A l \in comparisonlist : Cardinality(ItemsOf(comparisonitem, l)) = 1

\* the row is stored for the identity of client c once the request is over
OwnsAfter(c, row) ==
    IF IsAuthenticated(c)
    THEN row.user = UserOf(c)
    ELSE session'[c] # None /\ row.session_key = session'[c]

\* C13: for each of the fifteen product types, add_to_wishlist and
\* add_to_comparison called with the SKU of an existing product of that type
\* find the product: the request does not end in the not-found notice, and an
\* item it reports as added or as present refers to the product and belongs to
\* the requesting identity.
C13_EveryTypeCanBeAdded ==
    [][\A c \in Clients : \A r \in product :
          /\ AddToComparison(c, r.sku) =>
                /\ response'.notice # "not_found"
                /\ response'.notice \in {"added", "already"} =>
                      \E x \in comparisonitem' :
                          /\ x.content_type = r.type /\ x.object_id = r.id
                          /\ \E l \in comparisonlist' :
                                l.id = x.comparison_list /\ OwnsAfter(c, l)
          /\ AddToWishlist(c, r.sku) =>
                /\ response'.notice # "not_found"
                /\ response'.notice \in {"added", "already"} =>
                      \E w \in wishlistitem' :
                          /\ w.content_type = r.type /\ w.object_id = r.id
                          /\ OwnsAfter(c, w)]_vars

\* no product of any table has the SKU
UnknownSku(sku) == ~\E r \in product : r.sku = sku

\* the request ended in a redirect that carries a notice
RedirectWithNotice ==
    /\ response'.status \in {"redirect:home", "redirect:comparison_view",
                             "redirect:wishlist_view"}
    /\ response'.notice # None

\* the request ended in an error response with status 404 and no notice
Status404 == response' = Response("404", None)

\* C14: every request that names a record by an identifier that matches no
\* record (an unknown SKU for add_to_comparison, add_to_wishlist, product_detail
\* or quick_view; an unknown item or list id for remove_from_comparison,
\* clear_comparison or remove_from_wishlist) ends in a redirect carrying a
\* notice, not in an error response.
C14_UnknownIdRedirects ==
    [][\A c \in ViewClients :
          /\ \A sku \in RequestSkus :
                UnknownSku(sku) =>
                    /\ AddToComparison(c, sku) => RedirectWithNotice
                    /\ AddToWishlist(c, sku) => RedirectWithNotice
                    /\ ProductDetail(c, sku) => RedirectWithNotice
                    /\ QuickView(c, sku) => RedirectWithNotice
          /\ \A id \in 1..MaxItems :
                (~\E x \in comparisonitem : x.id = id) =>
                    (RemoveFromComparison(c, id) => RedirectWithNotice)
          /\ \A id \in 1..MaxLists :
                (~\E l \in comparisonlist : l.id = id) =>
                    (ClearComparison(c, id) => RedirectWithNotice)
          /\ \A id \in 1..MaxWishes :
                (~\E w \in wishlistitem : w.id = id) =>
                    (RemoveFromWishlist(c, id) => RedirectWithNotice)]_vars

\* C14, amended: an unknown SKU ends add_to_comparison, add_to_wishlist and
\* product_detail in a redirect to home with the not-found notice, and ends
\* quick_view in a response with status 404; an unknown item or list id ends
\* remove_from_comparison, clear_comparison and remove_from_wishlist in a
\* response with status 404; none of these requests changes a stored row.
C14_UnknownIdOutcome ==
    [][\A c \in ViewClients :
          /\ \A sku \in RequestSkus :
                UnknownSku(sku) =>
                    /\ (AddToComparison(c, sku) \/ AddToWishlist(c, sku)
                            \/ ProductDetail(c, sku)) =>
                          /\ response' = Response("redirect:home", "not_found")
                          /\ UNCHANGED cmpTables
                    /\ QuickView(c, sku) => (Status404 /\ UNCHANGED cmpTables)
          /\ \A id \in 1..MaxItems :
                (~\E x \in comparisonitem : x.id = id) =>
                    (RemoveFromComparison(c, id) => (Status404 /\ UNCHANGED cmpTables))
          /\ \A id \in 1..MaxLists :
                (~\E l \in comparisonlist : l.id = id) =>
                    (ClearComparison(c, id) => (Status404 /\ UNCHANGED cmpTables))
          /\ \A id \in 1..MaxWishes :
                (~\E w \in wishlistitem : w.id = id) =>
                    (RemoveFromWishlist(c, id) => (Status404 /\ UNCHANGED cmpTables))]_vars

\* a request with an unknown identifier was answered with status 404 while
\* lists, items and wishlist entries were stored
C14_Witness ==
    /\ response = Response("404", None)
    /\ comparisonlist # {}
    /\ comparisonitem # {}
    /\ wishlistitem # {}

\* C15: add_to_comparison and add_to_wishlist called with an SKU that matches
\* no product leave the stored state unchanged: no comparison list, comparison
\* item or wishlist item is created or deleted, and no anonymous session is
\* created for a visitor that had none.
C15_UnknownSkuChangesNothing ==
    [][\A c \in ViewClients : \A sku \in RequestSkus :
          (UnknownSku(sku) /\ (AddToComparison(c, sku) \/ AddToWishlist(c, sku))) =>
              /\ comparisonlist' = comparisonlist
              /\ comparisonitem' = comparisonitem
              /\ wishlistitem' = wishlistitem
              /\ session' = session]_vars

\* an add with an unknown SKU was answered while an anonymous visitor still has
\* no session and another visitor has stored rows
C15_Witness ==
    /\ response = Response("redirect:home", "not_found")
    /\ \E c \in ViewClients : ~IsAuthenticated(c) /\ session[c] = None
    /\ comparisonitem # {}
    /\ wishlistitem # {}

\* two lists belong to the same identity: the same user, the same session key
SameOwner(l, m) == l.user = m.user /\ l.session_key = m.session_key

\* no identity holds non-empty lists of two different product types
OneTypePerIdentity(lists, items) ==
    \A l, m \in lists :
        (SameOwner(l, m) /\ ItemsOf(items, l) # {} /\ ItemsOf(items, m) # {}) =>
            l.product_type = m.product_type

\* C17: an identity never holds non-empty comparison lists of two different
\* product types after any sequence of completed requests: add_to_comparison of
\* a product of type T by an identity that already has a non-empty list of a
\* type other than T is refused with an error notice and creates neither a list
\* nor an item.
C17_OneTypePerIdentity ==
    [][/\ \A c \in Clients : \A sku \in RequestSkus :
            (/\ ~Missing(FindProduct(product, sku))
             /\ \E l \in comparisonlist :
                   /\ Owns(c, l)
                   /\ l.product_type # FindProduct(product, sku).model_name
                   /\ ItemsOf(comparisonitem, l) # {}
             /\ AddToComparison(c, sku)) =>
                /\ response' = Response("redirect:comparison_view", "other_type")
                /\ comparisonlist' = comparisonlist
                /\ comparisonitem' = comparisonitem
       /\ OneTypePerIdentity(comparisonlist', comparisonitem')]_vars

\* an identity that holds a list with two items was refused an add of another type
C17_Witness ==
    /\ response = Response("redirect:comparison_view", "other_type")
    /\ Cardinality(comparisonlist) = 1
    /\ Cardinality(comparisonitem) = 2

\* C18: adding is idempotent per identity when requests run one after another:
\* an identity has at most one wishlist item per product and a comparison list
\* has at most one item per product; a repeated add reports 'already in' and
\* stores nothing.
C18_AddIsIdempotent ==
    [][/\ \A c \in ViewClients : \A r \in product :
            LET found == FindProduct(product, r.sku)
                Same(x) == /\ x.content_type = found.content_type
                           /\ x.object_id = found.product.id
            IN ~Missing(found) =>
                 /\ ((\E w \in wishlistitem : Owns(c, w) /\ Same(w))
                        /\ AddToWishlistWithin(c, r.sku, MaxRepeatedWishes)) =>
                       /\ response' = Response("redirect:wishlist_view", "already")
                       /\ wishlistitem' = wishlistitem
                 /\ ((\E x \in comparisonitem : Owns(c, ListOfItem(x)) /\ Same(x))
                        /\ AddToComparison(c, r.sku)) =>
                       /\ response' = Response("redirect:comparison_view", "already")
                       /\ comparisonitem' = comparisonitem
                       /\ comparisonlist' = comparisonlist
       /\ \A w, v \in wishlistitem' :
             (/\ w.user = v.user /\ w.session_key = v.session_key
              /\ w.content_type = v.content_type /\ w.object_id = v.object_id) => w = v
       /\ \A x, y \in comparisonitem' :
             (/\ x.comparison_list = y.comparison_list
              /\ x.content_type = y.content_type /\ x.object_id = y.object_id) => x = y]_vars

\* an identity that holds two wishlist items and a comparison list with two
\* items repeated an add and was told that the product is present already
C18_Witness ==
    /\ response.notice = "already"
    /\ \E w, v \in wishlistitem :
          w # v /\ w.user = v.user /\ w.session_key = v.session_key
    /\ \E l \in comparisonlist : Cardinality(ItemsOf(comparisonitem, l)) = 2

\* C19: when two add_to_comparison requests of the same identity for products
\* of two different types run concurrently, starting without comparison lists,
\* no interleaving of their steps ends with the identity holding non-empty
\* lists of two different product types.
C19_ConcurrentAddsKeepOneType ==
    (\A p \in Adders : addPc[p] = "done") =>
        OneTypePerIdentity(comparisonlist, comparisonitem)

\* C20: for each identity and product type at most one comparison list exists
\* in every reachable state, also while concurrent add_to_comparison requests of
\* the same identity and type are interleaved.
C20_OneListPerIdentityAndType ==
    \A l, m \in comparisonlist :
        (SameOwner(l, m) /\ l.product_type = m.product_type) => l = m

\* the removal of item x has deleted it
RemovedByRequest(id) ==
    \E q \in Removers :
        rmReq[q].item_id = id /\ rmPc[q] \in {"count", "delete_list", "done"}

\* C21: a comparison list is deleted by remove_from_comparison only if it holds
\* no item at the moment of deletion: when the removal of a list's last item
\* runs concurrently with an add_to_comparison of the same identity and type,
\* no interleaving deletes an item that the add request reported as added, and
\* no comparison item is left referring to a deleted list.
C21_RemoveDeletesOnlyEmptyList ==
    /\ \A p \in Adders :
          (addPc[p] = "done" /\ addReq[p].response.notice = "added") =>
              \/ \E x \in comparisonitem : x.id = addReq[p].item_id
              \/ RemovedByRequest(addReq[p].item_id)
    /\ \A x \in comparisonitem : \E l \in comparisonlist : l.id = x.comparison_list

\* C22: requests of one identity never change what another identity owns:
\* add_to_comparison and add_to_wishlist by identity A keep every stored row
\* and create rows owned only by A; comparison_view and wishlist_view for A
\* return exactly the lists and items owned by A; an anonymous visitor without
\* a session sees no entries and viewing creates no session.
C22_IdentitiesIsolated ==
    [][\A c \in ViewClients :
          /\ \A sku \in RequestSkus :
                (AddToComparison(c, sku) \/ AddToWishlist(c, sku)) =>
                    /\ comparisonlist \subseteq comparisonlist'
                    /\ comparisonitem \subseteq comparisonitem'
                    /\ wishlistitem \subseteq wishlistitem'
                    /\ \A l \in comparisonlist' \ comparisonlist :
                          OwnsAfter(c, l) /\ \A d \in Clients \ {c} : ~OwnsAfter(d, l)
                    /\ \A x \in comparisonitem' \ comparisonitem :
                          \E l \in comparisonlist' :
                              /\ l.id = x.comparison_list
                              /\ OwnsAfter(c, l)
                              /\ \A d \in Clients \ {c} : ~OwnsAfter(d, l)
                    /\ \A w \in wishlistitem' \ wishlistitem :
                          OwnsAfter(c, w) /\ \A d \in Clients \ {c} : ~OwnsAfter(d, w)
                    /\ \A d \in Clients \ {c} : session'[d] = session[d]
          /\ ComparisonView(c) =>
                /\ context'.rows = {l \in comparisonlist : Owns(c, l)}
                /\ context'.items = {x \in comparisonitem : Owns(c, ListOfItem(x))}
                /\ UNCHANGED <<cmpTables, session>>
          /\ WishlistView(c) =>
                /\ context'.rows = {w \in wishlistitem : Owns(c, w)}
                /\ UNCHANGED <<cmpTables, session>>]_vars

\* a visitor without a session was shown an empty comparison while a list and
\* a wishlist item of another identity are stored
C22_Witness ==
    /\ context = [view |-> "comparison", rows |-> {}, items |-> {}]
    /\ \E c \in ViewClients : ~IsAuthenticated(c) /\ session[c] = None
    /\ comparisonitem # {}
    /\ wishlistitem # {}

\* C23: clear_comparison requested by the owner of a comparison list deletes
\* that list and all of its items, and leaves every other comparison list,
\* every item of other lists and every wishlist item unchanged.
C23_ClearDeletesOneList ==
    [][\A c \in ViewClients : \A l \in comparisonlist :
          (ClearComparison(c, l.id) /\ Owns(c, l)) =>
              /\ comparisonlist' = comparisonlist \ {l}
              /\ comparisonitem' = {x \in comparisonitem : x.comparison_list # l.id}
              /\ wishlistitem' = wishlistitem]_vars

\* a list was cleared while a list of another identity, its item and a
\* wishlist item are stored
C23_Witness ==
    /\ response = Response("redirect:comparison_view", "cleared")
    /\ nextListId = 3
    /\ Cardinality(comparisonlist) = 1
    /\ comparisonitem # {}
    /\ wishlistitem # {}

----------------------------------------------------------------------------
(* Specifications *)

Init == ImgInit /\ CatInit /\ CmpInit /\ SubInit /\ AddInit /\ RmInit /\ ViewInit

\* the state in which the back office has stored the catalog
InitCatalog ==
    /\ ImgInit
    /\ product = Catalog
    /\ nextProductId = [t \in {r.type : r \in Catalog} |->
                           1 + Cardinality({r \in Catalog : r.type = t})]
    /\ skuPc = [p \in Creators |-> "idle"]
    /\ skuInst = [p \in Creators |-> NewProduct("GPU", CHOOSE f \in FormInputs : TRUE)]
    /\ CmpInit
    /\ SubInit
    /\ AddInit
    /\ RmInit
    /\ ViewInit

\* the ProductImage operations, each run to completion before the next starts
SpecImg == Init /\ [][NextImg]_vars

\* ProductImage.save() of concurrent requests, each saving once, interleaved
\* statement by statement
SpecImgConc == Init /\ [][NextImgConc]_vars

\* creation requests of products, interleaved statement by statement, and edits
SpecSku == Init /\ [][NextSku]_vars

\* the comparison and wishlist requests, each run to completion before the next
SpecCmp == InitCatalog /\ [][NextCmp]_vars

\* the comparison and the wishlist requests, each run to completion
SpecStore == InitCatalog /\ [][NextStore]_vars

\* every view that looks a record up by an identifier, each run to completion
SpecViews == InitCatalog /\ [][NextViews]_vars

\* the newsletter subscription requests, each run to completion
SpecSub == Init /\ [][NextSub]_vars

\* add_to_comparison requests of logged-in users, each served once, interleaved
\* query by query, starting without comparison lists
SpecAddConc == InitCatalog /\ [][NextAddConc]_vars

\* add_to_comparison and add_to_wishlist requests, each run to completion
SpecAdd == InitCatalog /\ [][NextAdd]_vars

\* add_to_comparison and remove_from_comparison requests of logged-in users,
\* each served once, interleaved query by query
SpecRmConc == InitCatalog /\ [][NextRmConc]_vars

\* add requests and list views, each run to completion
SpecBrowse == InitCatalog /\ [][NextBrowse]_vars

\* the states in which the back office has stored some products with prices
InitListing ==
    /\ ImgInit
    /\ product \in Catalogs
    /\ nextProductId = [t \in {r.type : r \in Catalog} |->
                           1 + Cardinality({r \in Catalog : r.type = t})]
    /\ skuPc = [p \in Creators |-> "idle"]
    /\ skuInst = [p \in Creators |-> NewProduct("GPU", CHOOSE f \in FormInputs : TRUE)]
    /\ CmpInit
    /\ SubInit
    /\ AddInit
    /\ RmInit
    /\ ViewInit

\* the listing requests, each run to completion
SpecListing == InitListing /\ [][NextListing]_vars

\* first saves of products of three tables, interleaved statement by statement
SpecSave == Init /\ [][NextSave]_vars

\* add requests, image uploads and product deletions, each run to completion
SpecBackOffice == InitCatalog /\ [][NextBackOffice]_vars

=============================================================================
